---- MODULE Spec2Model ----
(***************************************************************************)
(* Reorg-aware event ingestion of truthbounty-api.                         *)
(*                                                                         *)
(* Part I  models EventIndexerService (src/src/indexer/                    *)
(* event-indexer.service.ts): the polling loop, the checkpoint rows        *)
(* (IndexingState), the event rows (IndexedEvent), the confirmation sweep  *)
(* and the backfill operation.  A polling cycle is split at its awaits     *)
(* that read or write shared rows, so that several loops, and a backfill,  *)
(* interleave the way the event loop lets them.                            *)
(*                                                                         *)
(* Part II models the block-processing pipeline: EventIndexingService.     *)
(* processBlock with ReorgDetectorService, ReconciliationService and the   *)
(* in-memory BlockchainStateService.                                       *)
(*                                                                         *)
(* Part III models BlockchainIndexerService (src/src/blockchain/           *)
(* blockchain.controller.ts): processEvent and its transaction over the    *)
(* tables processed_events, token_balances and indexer_checkpoint.         *)
(***************************************************************************)
EXTENDS Integers, Sequences, FiniteSets, TLC

VARIABLES
    config,       \* EventIndexerConfig: the configured events, and the chain's logs
    isIndexing,   \* EventIndexerService.isIndexing
    stateRows,    \* table indexing_state: subscription -> row or NoRow
    eventRows,    \* table indexed_events: a set of rows
    loops,        \* the poll chains of startIndexingLoop, one record per chain
    lastOp,       \* history: the operation that produced this state
    blocks,       \* BlockchainStateService.blocks, in insertion order
    events,       \* BlockchainStateService.events, in insertion order
    reorgHistory, \* BlockchainStateService.reorgHistory
    chainState,   \* BlockchainStateService.chainState
    node,         \* the chain the node reports (height -> fork), and its history
    lastCall,     \* history: the last processBlock call and what detectReorg returned
    handling,     \* the processBlock call whose handleReorg is in flight, or NoHandling
    processedEvents,   \* table processed_events: a set of rows
    tokenBalances,     \* table token_balances: address -> balance, for the rows that exist
    indexerCheckpoint, \* table indexer_checkpoint: <<lastBlock>> of the row id 1, or <<>>
    calls,        \* the processEvent calls in flight, one record per caller
    lastTx,       \* history: the last step of a processEvent call
    replays,      \* history: the number of replayFromBlock calls so far
    heads,        \* history: the heads the polls observed (see Observed)
    stakeEvents,  \* table stake_event: a set of rows, unique on txHash
    stakes,       \* table stake: <<walletAddress, claimId>> -> amount, for the rows that exist
    lastStake,    \* history: the last handleEvent call, and the number of calls
    disputes,     \* table disputes, in the order of creation (the index is the id)
    lastDispute   \* history: the last DisputeService call and whether it returned

idxVars == <<config, isIndexing, stateRows, eventRows, loops, lastOp>>
blkVars == <<blocks, events, reorgHistory, chainState, node, lastCall>>
txVars == <<processedEvents, tokenBalances, indexerCheckpoint, calls, lastTx, replays>>
stakeVars == <<stakeEvents, stakes, lastStake>>
disputeVars == <<disputes, lastDispute>>
vars == <<config, isIndexing, stateRows, eventRows, loops, lastOp,
          blocks, events, reorgHistory, chainState, node, lastCall, handling,
          processedEvents, tokenBalances, indexerCheckpoint, calls, lastTx, replays,
          heads, stakeEvents, stakes, lastStake, disputes, lastDispute>>

(***************************************************************************)
(* Part I: EventIndexerService                                             *)
(***************************************************************************)

\* Highest head height the node reports to a poll.
MaxHead == 4
\* config.confirmationsRequired
ConfirmationsRequired == 1
\* config.blockRangePerBatch
BlockRangePerBatch == 2
\* contract.startBlock of the configured contract
StartBlock == 1
\* Highest block number a backfill request names.
MaxBackfillBlock == 2

\* The configured contract, the event types it can be configured with, and a
\* contract address that is not configured.
ContractAddress == "A"
EventTypes == {"E1", "E2"}
UnknownContract == "Z"

Subscriptions == {<<ContractAddress, t>> : t \in EventTypes}

NoRow == [none |-> TRUE]
NoEvent == [none |-> TRUE]
NoHandling == [none |-> TRUE]

\* The logs the chain holds for the configured contract.
ChainLogs ==
    { [transactionHash |-> "t1", logIndex |-> 0, blockNumber |-> StartBlock,     eventType |-> "E1"],
      [transactionHash |-> "t2", logIndex |-> 0, blockNumber |-> StartBlock + 1, eventType |-> "E1"] }

Min(a, b) == IF a <= b THEN a ELSE b

\* No poll has observed a head.
NoHeads == [highest |-> 0, fell |-> FALSE]

\* A poll chain that is not running: no poll is executing or scheduled.
IdleLoop == [pc |-> "none", head |-> 0, sub |-> 1, st |-> NoRow, from |-> 0, to |-> 0,
             queue |-> <<>>, ev |-> NoEvent]

\* The state after construction, for a configuration with the given events.
InitIdx(configuredEvents) ==
    /\ config = [events |-> configuredEvents, logs |-> ChainLogs]
    /\ isIndexing = FALSE
    /\ stateRows = [s \in Subscriptions |-> NoRow]
    /\ eventRows = {}
    /\ loops = [p \in {1, 2} |-> IdleLoop]
    /\ lastOp = [op |-> "init"]
    /\ heads = NoHeads
    /\ stakeEvents = {}
    /\ stakes = <<>>
    /\ lastStake = [op |-> "init", calls |-> 0]
    /\ disputes = <<>>
    /\ lastDispute = [op |-> "init"]

InitBlkIdle ==
    /\ blocks = <<>>
    /\ events = <<>>
    /\ reorgHistory = <<>>
    /\ chainState = [lastProcessedBlock |-> 0, lastCanonicalHash |-> <<0, 0>>,
                     confirmedDepth |-> 0, pendingEventCount |-> 0,
                     orphanedEventCount |-> 0]
    /\ node = [lineage |-> <<>>, reorgs |-> 0, forkAt |-> 0, oldTip |-> 0, withEvent |-> {},
               redelivered |-> 0]
    /\ lastCall = [op |-> "init"]
    /\ handling = NoHandling

\* Number of concurrent callers of BlockchainIndexerService.processEvent.
MaxCallers == 2
\* The balance of a token_balances row that exists before the first event.
InitialBalance == 5

Callers == 1..MaxCallers
Addresses == {"X", "Y"}

\* A caller with no processEvent call in flight.
IdleCall == [pc |-> "idle", event |-> NoEvent, lastBlock |-> 0]

\* The tables with the token_balances rows of the given addresses, and the
\* indexer_checkpoint row if hasCheckpoint.
InitTx(seeded, hasCheckpoint) ==
    /\ processedEvents = {}
    /\ tokenBalances = [a \in seeded |-> InitialBalance]
    /\ indexerCheckpoint = IF hasCheckpoint THEN <<0>> ELSE <<>>
    /\ calls = [c \in Callers |-> IdleCall]
    /\ lastTx = [op |-> "init"]
    /\ replays = 0

\* The tables as the schema creates them: empty.
InitTxEmpty == InitTx({}, FALSE)

\* The contract configured with both events.
Init == InitIdx(<<"E1", "E2">>) /\ InitBlkIdle /\ InitTxEmpty
\* The contract configured with one event.
InitOne == InitIdx(<<"E1">>) /\ InitBlkIdle /\ InitTxEmpty

\* ---------------------------------------------------------------- rows

\* The row initializeIndexingState creates for a subscription.
NewStateRow ==
    [lastProcessedBlockNumber |-> StartBlock - 1, status |-> "idle",
     errorMessage |-> "null"]

\* initializeIndexingState without its findOne: every configured event gets
\* a fresh row.
InitializedStatesReset(rows, configuredEvents) ==
    [s \in Subscriptions |->
        IF \E i \in 1..Len(configuredEvents) : s[2] = configuredEvents[i]
        THEN NewStateRow ELSE rows[s]]

\* start(): initializeIndexingState for every configured event; an existing
\* row is left alone.
InitializedStates(rows, configuredEvents) ==
    [s \in Subscriptions |->
        IF rows[s] = NoRow /\ (\E i \in 1..Len(configuredEvents) : s[2] = configuredEvents[i])
        THEN NewStateRow ELSE rows[s]]

\* indexEventType: startBlock of the window.
WindowStart(state) == state.lastProcessedBlockNumber + 1

\* The window without the cap at the head: endBlock = startBlock + batch - 1.
WindowEndNoCap(startBlock, currentBlockNumber) ==
    startBlock + BlockRangePerBatch - 1

WindowEnd(startBlock, currentBlockNumber) ==
    Min(startBlock + BlockRangePerBatch - 1,
        currentBlockNumber - ConfirmationsRequired)

\* The window check left out.
NothingToProcessNever(startBlock, endBlock) == FALSE

\* indexEventType: "if (startBlock > endBlock) return".
NothingToProcess(startBlock, endBlock) == startBlock > endBlock

\* provider.getLogs: the logs of one event type in [fromBlock, toBlock], in
\* chain order (block number, then log index).
LogsIn(logs, eventType, fromBlock, toBlock) ==
    {l \in logs : /\ l.eventType = eventType
                        /\ fromBlock <= l.blockNumber
                        /\ l.blockNumber <= toBlock}

Before(a, b) ==
    \/ a.blockNumber < b.blockNumber
    \/ a.blockNumber = b.blockNumber /\ a.logIndex <= b.logIndex

RECURSIVE InChainOrder(_)
InChainOrder(S) ==
    IF S = {} THEN <<>>
    ELSE LET first == CHOOSE l \in S : \A k \in S : Before(l, k)
         IN <<first>> \o InChainOrder(S \ {first})

FetchEvents(logs, eventType, fromBlock, toBlock) ==
    InChainOrder(LogsIn(logs, eventType, fromBlock, toBlock))

\* The existence check left out: the findOne finds nothing.
ExistingEventNone(rows, log, eventType) == {}

\* processEvent: the findOne by (transactionHash, logIndex, eventType).
ExistingEvent(rows, log, eventType) ==
    {r \in rows : /\ r.transactionHash = log.transactionHash
                   /\ r.logIndex = log.logIndex
                   /\ r.eventType = eventType}

\* The generated primary key: distinct from the key of any row that agrees
\* on the other columns.
GeneratedId(rows, log, eventType) ==
    Cardinality({r \in rows : /\ r.transactionHash = log.transactionHash
                              /\ r.logIndex = log.logIndex
                              /\ r.eventType = eventType})

\* processEvent: the entity it creates.  blockNumber is the argument the
\* caller passes (indexEventType passes endBlock); blockFound is whether
\* provider.getBlock returned a block.
CreatedEvent(log, eventType, blockNumber, blockFound) ==
    LET confirmations == IF blockFound THEN blockNumber - log.blockNumber ELSE 0
    IN [id |-> 0,
        eventType |-> eventType,
        transactionHash |-> log.transactionHash,
        blockNumber |-> log.blockNumber,
        logIndex |-> log.logIndex,
        confirmations |-> confirmations,
        isFinalized |-> (confirmations >= ConfirmationsRequired),
        isProcessed |-> FALSE,
        processingError |-> "null",
        retryAttempts |-> 0]

\* A table without the unique indexes.
UniqueViolationOff(rows, ev) == FALSE

\* The unique indexes of indexed_events: (transactionHash, logIndex,
\* eventType) and (blockNumber, logIndex).
UniqueViolation(rows, ev) ==
    \E r \in rows :
        \/ /\ r.transactionHash = ev.transactionHash
           /\ r.logIndex = ev.logIndex
           /\ r.eventType = ev.eventType
        \/ /\ r.blockNumber = ev.blockNumber
           /\ r.logIndex = ev.logIndex

\* eventRepository.save of a new entity: the insert, which the storage
\* rejects on a unique violation (processEvent's catch swallows the error).
SavedEvent(rows, ev) ==
    IF UniqueViolation(rows, ev) THEN rows
    ELSE rows \cup {[ev EXCEPT !.id = GeneratedId(rows, ev, ev.eventType)]}

\* A sweep that corrects nothing.
SweptNone(ev, currentBlockNumber) == ev

\* reconcileReorgs: the sweep over the finalized events.
Swept(ev, currentBlockNumber) ==
    IF ev.isFinalized /\ currentBlockNumber - ev.blockNumber < ConfirmationsRequired
    THEN [ev EXCEPT !.isFinalized = FALSE, !.isProcessed = FALSE,
                    !.processingError = "null", !.retryAttempts = 0]
    ELSE ev

\* A sweep that removes the events it finds below the threshold.
ReconcileReorgsDeleting(rows, currentBlockNumber) ==
    {ev \in rows : Swept(ev, currentBlockNumber) = ev}

ReconcileReorgs(rows, currentBlockNumber) ==
    {Swept(ev, currentBlockNumber) : ev \in rows}

\* ---------------------------------------------------------------- actions

SubKey(i) == <<ContractAddress, config.events[i]>>

\* A finally block that schedules the next poll whatever isIndexing is.
RescheduledAlways == [IdleLoop EXCEPT !.pc = "scheduled"]

\* The poll's finally block: schedule the next poll if still indexing.
Rescheduled == IF isIndexing THEN [IdleLoop EXCEPT !.pc = "scheduled"] ELSE IdleLoop

\* The poll after provider.getBlockNumber() answered h: indexContract begins
\* with the first configured event.
Polling(h) == [IdleLoop EXCEPT !.pc = "readState", !.head = h]

\* indexContract's loop: on to the next configured event, then reconcileReorgs.
NextSub(l) ==
    IF l.sub < Len(config.events)
    THEN [Polling(l.head) EXCEPT !.sub = l.sub + 1]
    ELSE [Polling(l.head) EXCEPT !.pc = "reconcile"]

\* processEvent returned: on to the next fetched event, then the state update.
NextEvent(l) ==
    IF Len(l.queue) > 1
    THEN [l EXCEPT !.pc = "find", !.queue = Tail(l.queue), !.ev = NoEvent]
    ELSE [l EXCEPT !.pc = "saveState", !.queue = <<>>, !.ev = NoEvent]

\* start(): returns at once if already running; otherwise initializes the
\* state rows and calls startIndexingLoop, whose first poll has passed its
\* isIndexing check; h is what its getBlockNumber() answers.
Start(p, h) ==
    /\ ~isIndexing
    /\ loops[p].pc = "none"
    /\ \A q \in DOMAIN loops : q < p => loops[q].pc # "none"
    /\ isIndexing' = TRUE
    /\ stateRows' = InitializedStates(stateRows, config.events)
    /\ loops' = [loops EXCEPT ![p] = Polling(h)]
    /\ lastOp' = [op |-> "Start", p |-> p]
    /\ UNCHANGED <<config, eventRows, blkVars, handling, txVars, heads, stakeVars, disputeVars>>

\* stop()
Stop ==
    /\ isIndexing
    /\ isIndexing' = FALSE
    /\ lastOp' = [op |-> "Stop"]
    /\ UNCHANGED <<config, stateRows, eventRows, loops, blkVars, handling, txVars, heads, stakeVars, disputeVars>>

\* poll, fired by setTimeout: "if (!this.isIndexing) return" (the finally
\* block then schedules nothing); otherwise getBlockNumber() answers h.
PollTick(p, h) ==
    /\ loops[p].pc = "scheduled"
    /\ loops' = [loops EXCEPT ![p] = IF isIndexing THEN Polling(h) ELSE IdleLoop]
    /\ lastOp' = [op |-> "PollTick", p |-> p]
    /\ UNCHANGED <<config, isIndexing, stateRows, eventRows, blkVars, handling, txVars, heads, stakeVars, disputeVars>>

\* indexEventType: the findOne of the state row, the window, and fetchEvents,
\* which answers the logs of the window (ok) or throws.
ReadState(p, ok) ==
    LET l == loops[p]
        state == stateRows[SubKey(l.sub)]
        startBlock == WindowStart(state)
        endBlock == WindowEnd(startBlock, l.head)
        fetched == FetchEvents(config.logs, config.events[l.sub], startBlock, endBlock)
        skip == state = NoRow \/ NothingToProcess(startBlock, endBlock)
    IN /\ l.pc = "readState"
       /\ skip => ok
       /\ loops' = [loops EXCEPT ![p] =
                       IF skip THEN NextSub(l)
                       ELSE [l EXCEPT !.st = state, !.from = startBlock, !.to = endBlock,
                                      !.queue = IF ok THEN fetched ELSE <<>>,
                                      !.pc = IF ~ok THEN "saveError"
                                             ELSE IF fetched = <<>> THEN "saveState"
                                             ELSE "find"]]
       /\ lastOp' = [op |-> "ReadState", p |-> p, skip |-> skip]
       /\ UNCHANGED <<config, isIndexing, stateRows, eventRows, blkVars, handling, txVars, heads, stakeVars, disputeVars>>

\* indexEventType's catch: the state object is saved with status error.
ErrorState(state) == [state EXCEPT !.status = "error", !.errorMessage = "rpc"]

SaveError(p) ==
    LET l == loops[p]
    IN /\ l.pc = "saveError"
       /\ stateRows' = [stateRows EXCEPT ![SubKey(l.sub)] = ErrorState(l.st)]
       /\ loops' = [loops EXCEPT ![p] = NextSub(l)]
       /\ lastOp' = [op |-> "SaveError", p |-> p]
       /\ UNCHANGED <<config, isIndexing, eventRows, blkVars, handling, txVars, heads, stakeVars, disputeVars>>

\* processEvent up to the save: the existence check, then the decoding and
\* provider.getBlock, which have no effect on the store.  outcome is "ok",
\* "nullBlock" (getBlock answered null) or "throws" (parseLog or getBlock
\* threw, caught and logged by processEvent).
ProcFind(p, outcome) ==
    LET l == loops[p]
        log == Head(l.queue)
        eventType == config.events[l.sub]
        found == ExistingEvent(eventRows, log, eventType) # {}
    IN /\ l.pc = "find"
       /\ found => outcome = "ok"
       /\ loops' = [loops EXCEPT ![p] =
                       IF found \/ outcome = "throws" THEN NextEvent(l)
                       ELSE [l EXCEPT !.pc = "save",
                                      !.ev = CreatedEvent(log, eventType, l.to,
                                                          outcome = "ok")]]
       /\ lastOp' = [op |-> "ProcFind", p |-> p, found |-> found, log |-> log]
       /\ UNCHANGED <<config, isIndexing, stateRows, eventRows, blkVars, handling, txVars, heads, stakeVars, disputeVars>>

\* processEvent: eventRepository.save(event).
ProcSave(p) ==
    LET l == loops[p]
    IN /\ l.pc = "save"
       /\ eventRows' = SavedEvent(eventRows, l.ev)
       /\ loops' = [loops EXCEPT ![p] = NextEvent(l)]
       /\ lastOp' = [op |-> "ProcSave", p |-> p, log |-> Head(l.queue),
                      inserted |-> SavedEvent(eventRows, l.ev) # eventRows]
       /\ UNCHANGED <<config, isIndexing, stateRows, blkVars, handling, txVars, heads, stakeVars, disputeVars>>

\* indexEventType: the state update after the events of the window.
AdvancedState(state, endBlock) ==
    [state EXCEPT !.lastProcessedBlockNumber = endBlock, !.status = "idle"]

SaveState(p) ==
    LET l == loops[p]
    IN /\ l.pc = "saveState"
       /\ stateRows' = [stateRows EXCEPT ![SubKey(l.sub)] = AdvancedState(l.st, l.to)]
       /\ loops' = [loops EXCEPT ![p] = NextSub(l)]
       /\ lastOp' = [op |-> "SaveState", p |-> p]
       /\ UNCHANGED <<config, isIndexing, eventRows, blkVars, handling, txVars, heads, stakeVars, disputeVars>>

\* poll: reconcileReorgs(blockNumber), retryFailedEvents (which only logs),
\* and the finally block.
Reconcile(p) ==
    LET l == loops[p]
    IN /\ l.pc = "reconcile"
       /\ eventRows' = ReconcileReorgs(eventRows, l.head)
       /\ loops' = [loops EXCEPT ![p] = Rescheduled]
       /\ lastOp' = [op |-> "Reconcile", p |-> p, head |-> l.head]
       /\ UNCHANGED <<config, isIndexing, stateRows, blkVars, handling, txVars, heads, stakeVars, disputeVars>>

\* backfillFromBlock(contractAddress, blockNumber): the findOne by chain and
\* contract address matches any row of the contract; without a row it throws
\* (IndexerController.backfill then answers success = false).
\* The findOne without the contract address in its condition.
BackfillRowsAny(rows, contractAddress) ==
    {s \in Subscriptions : rows[s] # NoRow}

\* backfillFromBlock: the rows its findOne can answer.
BackfillRows(rows, contractAddress) ==
    {s \in Subscriptions : s[1] = contractAddress /\ rows[s] # NoRow}

\* A backfill that also clears the row's error message.
BackfilledReset(state, blockNumber) ==
    [state EXCEPT !.lastProcessedBlockNumber = blockNumber - 1,
                  !.status = "backfilling", !.errorMessage = "null"]

\* backfillFromBlock: the row it saves.
Backfilled(state, blockNumber) ==
    [state EXCEPT !.lastProcessedBlockNumber = blockNumber - 1,
                  !.status = "backfilling"]

BackfillFromBlock(contractAddress, blockNumber) ==
    /\ IF BackfillRows(stateRows, contractAddress) = {}
       THEN /\ lastOp' = [op |-> "Backfill", contract |-> contractAddress,
                          success |-> FALSE]
            /\ UNCHANGED stateRows
       ELSE \E s \in BackfillRows(stateRows, contractAddress) :
            /\ stateRows' = [stateRows EXCEPT ![s] = Backfilled(stateRows[s], blockNumber)]
            /\ lastOp' = [op |-> "Backfill", contract |-> contractAddress,
                          block |-> blockNumber, success |-> TRUE, sub |-> s,
                          previous |-> stateRows[s].lastProcessedBlockNumber]
    /\ UNCHANGED <<config, isIndexing, eventRows, loops, blkVars, handling, txVars, heads, stakeVars, disputeVars>>

Outcomes == {"ok", "nullBlock", "throws"}

LoopStep(p) ==
    \/ \E h \in 1..MaxHead : Start(p, h)
    \/ \E h \in 1..MaxHead : PollTick(p, h)
    \/ \E ok \in BOOLEAN : ReadState(p, ok)
    \/ SaveError(p)
    \/ \E outcome \in Outcomes : ProcFind(p, outcome)
    \/ ProcSave(p)
    \/ SaveState(p)
    \/ Reconcile(p)

Backfill ==
    \E c \in {ContractAddress, UnknownContract}, b \in 1..MaxBackfillBlock :
        BackfillFromBlock(c, b)

\* One poll chain, and backfill requests.
NextIdx ==
    \/ LoopStep(1)
    \/ Stop
    \/ Backfill

\* Up to two poll chains on one store: a chain still in flight when stop()
\* and start() are called again.
NextConc ==
    \/ \E p \in {1, 2} : LoopStep(p)
    \/ Stop

\* One poll chain and no backfill request.
NextPoll ==
    \/ LoopStep(1)
    \/ Stop

Spec == Init /\ [][NextIdx]_vars
SpecPoll == Init /\ [][NextPoll]_vars
SpecConc == InitOne /\ [][NextConc]_vars

\* ---------------------------------------------------------------- claims, Part I

\* The stored rows of one physical log of an event type.
RowsOf(log, eventType) ==
    {r \in eventRows : /\ r.transactionHash = log.transactionHash
                        /\ r.logIndex = log.logIndex
                        /\ r.eventType = eventType}

AtMostOneRowPerLog ==
    \A log \in config.logs : Cardinality(RowsOf(log, log.eventType)) <= 1

\* The states of a poll chain in which it holds a fetched window.
InWindow(l) == l.pc \in {"find", "save", "saveState", "saveError"}

\* C1: idempotent persistence.  However often processEvent is called for a
\* log (the first fetch, and every re-fetch after a backfill), at most one
\* row is stored for its (transactionHash, logIndex, eventType); a call that
\* finds the identity stored never reaches the save and leaves every stored
\* record as it is; and a call that reaches the save leaves exactly one row
\* for the identity.
C1_IdempotentPersistence ==
    /\ [](/\ AtMostOneRowPerLog
          /\ \A p \in DOMAIN loops :
                loops[p].pc = "save" => RowsOf(loops[p].ev, loops[p].ev.eventType) = {}
          /\ lastOp.op = "ProcSave" =>
                Cardinality(RowsOf(lastOp.log, lastOp.log.eventType)) = 1)
    /\ [][(lastOp'.op = "ProcFind" /\ lastOp'.found) =>
             /\ eventRows' = eventRows
             /\ loops'[lastOp'.p].pc # "save"]_vars

\* processEvent was called again for a log that is stored, and its one row
\* is still there.
C1_Witness ==
    /\ lastOp.op = "ProcFind"
    /\ lastOp.found
    /\ \E log \in config.logs : Cardinality(RowsOf(log, log.eventType)) = 1

\* C2: no duplicate under concurrent ingestion.  In every interleaving of
\* the find and save steps of two poll chains, at most one row is stored per
\* physical log, and a save rejected by the unique index does not fail the
\* pass: the chain goes on to its next event or to its checkpoint update.
C2_NoDuplicateConcurrent ==
    /\ \A log \in config.logs : Cardinality(RowsOf(log, log.eventType)) < 2
    /\ (lastOp.op = "ProcSave" /\ ~lastOp.inserted)
          => loops[lastOp.p].pc \in {"find", "saveState"}

\* A save was rejected by the unique index: the other chain had stored the
\* log between this chain's find and its save.
C2_Witness ==
    /\ lastOp.op = "ProcSave"
    /\ ~lastOp.inserted
    /\ AtMostOneRowPerLog
    /\ eventRows # {}

\* C3: finalization threshold.  After every completed polling cycle that
\* observed head h, every stored event is finalized if and only if
\* h - blockNumber >= confirmationsRequired.
C3_FinalizedIffConfirmed ==
    lastOp.op = "Reconcile" =>
        \A e \in eventRows :
            e.isFinalized <=> (lastOp.head - e.blockNumber >= ConfirmationsRequired)

\* C5: monotonic checkpoint.  With one poll chain and no backfill, no step
\* (a skipped cycle, a failed batch, a cycle under a lower head) decreases a
\* subscription's stored lastProcessedBlockNumber or removes its row.
C5_MonotonicCheckpoint ==
    [][\A s \in Subscriptions :
          stateRows[s] # NoRow =>
             /\ stateRows'[s] # NoRow
             /\ stateRows'[s].lastProcessedBlockNumber
                   >= stateRows[s].lastProcessedBlockNumber]_vars

\* A cycle observed a head so low that the window of an advanced checkpoint
\* is empty, and skipped.
C5_Witness ==
    /\ lastOp.op = "ReadState"
    /\ lastOp.skip
    /\ \E s \in Subscriptions :
          /\ stateRows[s] # NoRow
          /\ stateRows[s].lastProcessedBlockNumber > StartBlock - 1
          /\ loops[lastOp.p].head - ConfirmationsRequired
                < stateRows[s].lastProcessedBlockNumber

\* C8: backfill scenario.  backfillFromBlock(contract, b) on a subscription
\* whose checkpoint is c > b leaves lastProcessedBlockNumber = b - 1 and
\* status backfilling; the next cycle of the subscription that completes
\* (the first checkpoint update while the row is still backfilling) has a
\* window starting at b, also when it had read the checkpoint c before the
\* backfill; and no log has two rows.
C8_BackfillScenario ==
    /\ [](/\ (lastOp.op = "Backfill" /\ lastOp.success /\ lastOp.previous > lastOp.block) =>
                /\ stateRows[lastOp.sub].lastProcessedBlockNumber = lastOp.block - 1
                /\ stateRows[lastOp.sub].status = "backfilling"
          /\ AtMostOneRowPerLog)
    /\ [][\A p \in DOMAIN loops :
             LET l == loops[p]
                 row == stateRows[SubKey(l.sub)]
             IN (/\ lastOp'.op = "SaveState" /\ lastOp'.p = p
                 /\ row.status = "backfilling"
                 /\ \/ l.st.lastProcessedBlockNumber = row.lastProcessedBlockNumber
                    \/ l.st.lastProcessedBlockNumber > row.lastProcessedBlockNumber + 1)
                   => l.from = row.lastProcessedBlockNumber + 1]_vars

\* C9: backfill on a missing subscription.  backfillFromBlock for a contract
\* without a checkpoint row fails (success = false) and changes no
\* checkpoint row and no event row.
C9_BackfillMissing ==
    [][(/\ lastOp'.op = "Backfill"
        /\ \A s \in Subscriptions : s[1] = lastOp'.contract => stateRows[s] = NoRow)
          => /\ ~lastOp'.success
             /\ stateRows' = stateRows
             /\ eventRows' = eventRows]_vars

\* A backfill request for a contract without a row has failed while the
\* configured contract has its rows.
C9_Witness ==
    /\ lastOp.op = "Backfill"
    /\ ~lastOp.success
    /\ lastOp.contract = UnknownContract
    /\ \E s \in Subscriptions : stateRows[s] # NoRow

\* C10: safe window.  A fetched window [from, to] of a cycle that observed
\* head h has from = lastProcessedBlockNumber + 1 (of the row read),
\* from <= to <= h - confirmationsRequired and at most blockRangePerBatch
\* blocks, and every fetched log lies in it; a cycle that skips changes no
\* checkpoint; and a checkpoint update never stores more than
\* h - confirmationsRequired.
C10_WindowOk(l) ==
    /\ l.from = l.st.lastProcessedBlockNumber + 1
    /\ l.from <= l.to
    /\ l.to <= l.head - ConfirmationsRequired
    /\ l.to - l.from + 1 <= BlockRangePerBatch
    /\ \A i \in 1..Len(l.queue) :
          l.from <= l.queue[i].blockNumber /\ l.queue[i].blockNumber <= l.to

C10_SafeWindow ==
    /\ [](\A p \in DOMAIN loops : InWindow(loops[p]) => C10_WindowOk(loops[p]))
    /\ [][/\ (lastOp'.op = "ReadState" /\ lastOp'.skip) => stateRows' = stateRows
          /\ lastOp'.op = "SaveState" =>
                stateRows'[SubKey(loops[lastOp'.p].sub)].lastProcessedBlockNumber
                   <= loops[lastOp'.p].head - ConfirmationsRequired]_vars

\* A window cut short by the head: it ends at h - confirmationsRequired,
\* before the batch size is used up, and holds a fetched log.
C10_Witness ==
    \E p \in DOMAIN loops :
        /\ loops[p].pc = "find"
        /\ loops[p].to = loops[p].head - ConfirmationsRequired
        /\ loops[p].to < loops[p].from + BlockRangePerBatch - 1

\* C11: checkpoint after persistence.  Whenever indexEventType advances
\* lastProcessedBlockNumber to `to`, every log the node returned for the
\* window [from, to] has a stored record (the event, or a record carrying
\* its failure): no log of a checkpointed window is left without a record.
C11_CheckpointAfterPersistence ==
    [][\A p \in DOMAIN loops :
          (lastOp'.op = "SaveState" /\ lastOp'.p = p) =>
             \A log \in LogsIn(config.logs, config.events[loops[p].sub],
                                loops[p].from, loops[p].to) :
                 RowsOf(log, log.eventType) # {}]_vars

\* The poll chains that are executing a cycle or have one scheduled.
ActiveLoops == {p \in DOMAIN loops : loops[p].pc # "none"}

\* C12: no overlapping cycles.  Under every interleaving of start(), stop()
\* and a restart with a cycle in flight or scheduled, at most one poll chain
\* is executing or scheduled for the subscription.
C12_NoOverlappingCycles == Cardinality(ActiveLoops) <= 1

\* The identity of a stored event: its primary key and its unique columns.
Identity(r) == <<r.id, r.transactionHash, r.logIndex, r.eventType, r.blockNumber>>

\* C13: events are never deleted.  No step of the service (a poll, a
\* processEvent, the reconcileReorgs sweep, a backfill, stop or start)
\* removes a stored event: every stored identity is stored after the step,
\* and the sweep changes only isFinalized, isProcessed, processingError and
\* retryAttempts of the rows it corrects.
C13_NeverDeleted ==
    [][/\ \A r \in eventRows : \E q \in eventRows' : Identity(q) = Identity(r)
       /\ Cardinality(eventRows') >= Cardinality(eventRows)
       /\ lastOp'.op = "Reconcile" =>
             \A r \in eventRows :
                \E q \in eventRows' :
                   q = [r EXCEPT !.isFinalized = q.isFinalized,
                                 !.isProcessed = q.isProcessed,
                                 !.processingError = q.processingError,
                                 !.retryAttempts = q.retryAttempts]]_vars

\* The sweep of a cycle that observed a lower head has reset an event that
\* was stored finalized, and the event is still stored.
C13_Witness ==
    /\ lastOp.op = "Reconcile"
    /\ \E r \in eventRows :
          /\ r.confirmations >= ConfirmationsRequired
          /\ ~r.isFinalized
          /\ lastOp.head - r.blockNumber < ConfirmationsRequired

\* C17: multi-instance safety.  With two poll chains running indexEventType
\* for the same subscription on one store, no checkpoint update stores a
\* lastProcessedBlockNumber below the stored one.
C17_NoStaleCheckpointWrite ==
    [][\A p \in DOMAIN loops :
          (lastOp'.op = "SaveState" /\ lastOp'.p = p) =>
             stateRows'[SubKey(loops[p].sub)].lastProcessedBlockNumber
                >= stateRows[SubKey(loops[p].sub)].lastProcessedBlockNumber]_vars

\* Whether an event type is one of the configured events.
Configured(eventType) == \E i \in 1..Len(config.events) : config.events[i] = eventType

\* C18: restart-safe resume.  start() creates a row with
\* lastProcessedBlockNumber = startBlock - 1 exactly for the configured
\* subscriptions without a row and leaves every existing row unchanged; and
\* the window a cycle computes begins at the stored
\* lastProcessedBlockNumber + 1.
C18_RestartSafeResume ==
    [][/\ lastOp'.op = "Start" =>
             \A s \in Subscriptions :
                /\ stateRows[s] # NoRow => stateRows'[s] = stateRows[s]
                /\ (stateRows[s] = NoRow /\ Configured(s[2])) =>
                      /\ stateRows'[s] # NoRow
                      /\ stateRows'[s].lastProcessedBlockNumber = StartBlock - 1
                /\ (stateRows[s] = NoRow /\ ~Configured(s[2])) => stateRows'[s] = NoRow
       /\ \A p \in DOMAIN loops :
             (lastOp'.op = "ReadState" /\ lastOp'.p = p /\ ~lastOp'.skip) =>
                loops'[p].from
                   = stateRows[SubKey(loops[p].sub)].lastProcessedBlockNumber + 1]_vars

\* start() was called again (after a stop, with the earlier cycle still in
\* flight or ended) on a checkpoint that had advanced, and the checkpoint is
\* as it was.
C18_Witness ==
    /\ lastOp.op = "Start"
    /\ \E s \in Subscriptions :
          /\ stateRows[s] # NoRow
          /\ stateRows[s].lastProcessedBlockNumber > StartBlock - 1

(***************************************************************************)
(* Part II: the block-processing pipeline                                  *)
(***************************************************************************)

\* Highest block number the node produces.
MaxBlock == 15
\* The block number whose blocks may carry an event.
EventBlock == 3
\* Number of chain reorganisations of the node.
MaxReorgs == 1
\* Highest chain height at which the node still reorganises.
MaxReorgTip == 5
\* Number of blocks the node delivers a second time.
MaxRedeliveries == 1

\* ReorgDetectorService.CONFIRMATION_DEPTH
CONFIRMATION_DEPTH == 12
\* findDivergencePoint: the bound of the backward walk.
MaxWalkBack == 1000

NoBlock == [none |-> TRUE]
NoReorg == [none |-> TRUE]

\* The hash of the block at height n on fork f; hash_0 is <<0, 0>>.
Hash(n, f) == <<n, f>>

\* ---------------------------------------------------------------- BlockchainStateService

\* The index of the entry with the given id in a Map kept in insertion
\* order, or 0.
IndexOf(seq, id) ==
    IF \E i \in 1..Len(seq) : seq[i].id = id
    THEN CHOOSE i \in 1..Len(seq) : seq[i].id = id
    ELSE 0

\* Map.set: a new key is appended, an existing key keeps its place.
MapSet(seq, rec) ==
    IF IndexOf(seq, rec.id) = 0 THEN Append(seq, rec)
    ELSE [seq EXCEPT ![IndexOf(seq, rec.id)] = rec]

\* saveBlock
SaveBlock(bs, block) ==
    MapSet(bs, [id |-> <<block.number, block.hash>>,
                blockNumber |-> block.number,
                blockHash |-> block.hash,
                parentHash |-> block.parentHash,
                isCanonical |-> TRUE])

\* getCanonicalBlock: the first block at the height, in Map order, that is
\* canonical.
GetCanonicalBlock(bs, blockNumber) ==
    LET hits == {i \in 1..Len(bs) : bs[i].blockNumber = blockNumber /\ bs[i].isCanonical}
    IN IF hits = {} THEN NoBlock
       ELSE bs[CHOOSE i \in hits : \A j \in hits : i <= j]

\* getEventsByBlock: the ids of the events at a height, in Map order.
RECURSIVE IdsWhere(_, _, _)
IdsWhere(es, i, blockNumber) ==
    IF i > Len(es) THEN <<>>
    ELSE (IF es[i].blockNumber = blockNumber THEN <<es[i].id>> ELSE <<>>)
         \o IdsWhere(es, i + 1, blockNumber)

GetEventsByBlock(es, blockNumber) == IdsWhere(es, 1, blockNumber)

\* The pair <<events, chainState>> is what the event operations change.

\* savePendingEvent
SavePendingEvent(es, cs, event) ==
    <<MapSet(es, event),
      IF event.status = "pending"
      THEN [cs EXCEPT !.pendingEventCount = @ + 1] ELSE cs>>

\* updateEventStatus(eventId, status, confirmations); confirmations = -1
\* stands for the argument left out.
UpdateEventStatus(es, cs, eventId, status, confirmations) ==
    LET i == IndexOf(es, eventId)
        oldStatus == es[i].status
        updated == [es[i] EXCEPT
                       !.status = status,
                       !.confirmations = IF confirmations = -1 THEN @ ELSE confirmations,
                       !.confirmedAt = IF status = "confirmed" THEN TRUE ELSE @]
        pendingDelta == IF status \in {"confirmed", "orphaned"} /\ oldStatus = "pending"
                        THEN 1 ELSE 0
        orphanedDelta == IF status = "orphaned" THEN 1 ELSE 0
    IN <<[es EXCEPT ![i] = updated],
         [cs EXCEPT !.pendingEventCount = @ - pendingDelta,
                    !.orphanedEventCount = @ + orphanedDelta]>>

\* markBlocksNonCanonical for the block numbers startBlock..endBlock
MarkBlocksNonCanonical(bs, startBlock, endBlock) ==
    [i \in 1..Len(bs) |->
        IF startBlock <= bs[i].blockNumber /\ bs[i].blockNumber <= endBlock
        THEN [bs[i] EXCEPT !.isCanonical = FALSE] ELSE bs[i]]

\* ---------------------------------------------------------------- ReorgDetectorService

\* calculateConfirmations
CalculateConfirmations(blockNumber, headBlockNumber) ==
    IF headBlockNumber - blockNumber > 0 THEN headBlockNumber - blockNumber ELSE 0

\* A threshold one block short of CONFIRMATION_DEPTH.
IsEventConfirmedEarly(blockNumber, headBlockNumber) ==
    CalculateConfirmations(blockNumber, headBlockNumber) >= CONFIRMATION_DEPTH - 1

\* isEventConfirmed
IsEventConfirmed(blockNumber, headBlockNumber) ==
    CalculateConfirmations(blockNumber, headBlockNumber) >= CONFIRMATION_DEPTH

\* findDivergencePoint: the loop, from checkBlockNumber with divergenceDepth.
RECURSIVE WalkBack(_, _, _, _)
WalkBack(bs, parentHash, checkBlockNumber, divergenceDepth) ==
    IF checkBlockNumber > 0 /\ divergenceDepth <= MaxWalkBack
    THEN LET canonicalBlock == GetCanonicalBlock(bs, checkBlockNumber)
         IN IF canonicalBlock # NoBlock /\ canonicalBlock.blockHash # parentHash
            THEN WalkBack(bs, parentHash, checkBlockNumber - 1, divergenceDepth + 1)
            ELSE divergenceDepth
    ELSE divergenceDepth

FindDivergencePoint(bs, currentBlock) ==
    WalkBack(bs, currentBlock.parentHash, currentBlock.number - 1, 1)

\* getAffectedEvents: the ids of the events of the blocks startBlock..endBlock
RECURSIVE GetAffectedEvents(_, _, _)
GetAffectedEvents(es, startBlock, endBlock) ==
    IF startBlock > endBlock THEN <<>>
    ELSE GetEventsByBlock(es, startBlock) \o GetAffectedEvents(es, startBlock + 1, endBlock)

\* detectReorg(currentBlock, previousBlockNumber): a ReorgEvent, or NoReorg
\* for null.
DetectReorg(bs, es, currentBlock, previousBlockNumber) ==
    LET expectedParent == GetCanonicalBlock(bs, previousBlockNumber)
    IN IF previousBlockNumber = 0 THEN NoReorg
       ELSE IF expectedParent = NoBlock THEN NoReorg
       ELSE IF expectedParent.blockHash = currentBlock.parentHash THEN NoReorg
       ELSE LET reorgDepth == FindDivergencePoint(bs, currentBlock)
                affectedBlockStart == previousBlockNumber - reorgDepth + 1
                affectedBlockEnd == previousBlockNumber
            IN [reorgDepth |-> reorgDepth,
                affectedBlockStart |-> affectedBlockStart,
                affectedBlockEnd |-> affectedBlockEnd,
                orphanedEvents |-> GetAffectedEvents(es, affectedBlockStart, affectedBlockEnd),
                reprocessedEvents |-> <<>>]

\* ---------------------------------------------------------------- ReconciliationService

\* The rollback left out: the listed events keep their status.
RollbackNothing(es, cs, eventIds) == <<es, cs>>

\* rollbackAffectedEvents: every listed event that exists is marked orphaned.
RECURSIVE RollbackAffectedEvents(_, _, _)
RollbackAffectedEvents(es, cs, eventIds) ==
    IF eventIds = <<>> THEN <<es, cs>>
    ELSE LET next == IF IndexOf(es, Head(eventIds)) # 0
                     THEN UpdateEventStatus(es, cs, Head(eventIds), "orphaned", -1)
                     ELSE <<es, cs>>
         IN RollbackAffectedEvents(next[1], next[2], Tail(eventIds))

\* handleReorg: <<blocks, events, chainState, reorgHistory>> after the
\* rollback, markBlocksAsNonCanonical and recordReorg.
HandleReorg(bs, es, cs, history, reorg) ==
    LET rolled == RollbackAffectedEvents(es, cs, reorg.orphanedEvents)
    IN <<MarkBlocksNonCanonical(bs, reorg.affectedBlockStart, reorg.affectedBlockEnd),
         rolled[1], rolled[2], Append(history, reorg)>>

\* The ids of the events with a status, in Map order (getPendingEvents,
\* getOrphanedEvents).
RECURSIVE IdsWithStatus(_, _, _)
IdsWithStatus(es, i, status) ==
    IF i > Len(es) THEN <<>>
    ELSE (IF es[i].status = status THEN <<es[i].id>> ELSE <<>>)
         \o IdsWithStatus(es, i + 1, status)

\* reconcileOrphanedEvents(headBlockNumber), over the orphaned events found.
RECURSIVE ReconcileEach(_, _, _, _)
ReconcileEach(es, cs, eventIds, headBlockNumber) ==
    IF eventIds = <<>> THEN <<es, cs>>
    ELSE LET event == es[IndexOf(es, Head(eventIds))]
             next == IF IsEventConfirmed(event.blockNumber, headBlockNumber)
                     THEN UpdateEventStatus(es, cs, event.id, "confirmed",
                              CalculateConfirmations(event.blockNumber, headBlockNumber))
                     ELSE <<es, cs>>
         IN ReconcileEach(next[1], next[2], Tail(eventIds), headBlockNumber)

ReconcileOrphanedEvents(es, cs, headBlockNumber) ==
    ReconcileEach(es, cs, IdsWithStatus(es, 1, "orphaned"), headBlockNumber)

\* ---------------------------------------------------------------- EventIndexingService

\* indexEvent: the pending event stored for an event of the block.
PendingEvent(block, event) ==
    [id |-> <<block.hash, event.transactionHash, event.logIndex>>,
     blockNumber |-> block.number,
     blockHash |-> block.hash,
     transactionHash |-> event.transactionHash,
     logIndex |-> event.logIndex,
     status |-> "pending",
     confirmations |-> 0,
     confirmedAt |-> FALSE]

RECURSIVE IndexEvents(_, _, _, _)
IndexEvents(es, cs, block, evs) ==
    IF evs = <<>> THEN <<es, cs>>
    ELSE LET next == SavePendingEvent(es, cs, PendingEvent(block, Head(evs)))
         IN IndexEvents(next[1], next[2], block, Tail(evs))

\* updateEventConfirmations(currentBlockNumber), over the pending events found.
RECURSIVE ConfirmEach(_, _, _, _)
ConfirmEach(es, cs, eventIds, currentBlockNumber) ==
    IF eventIds = <<>> THEN <<es, cs>>
    ELSE LET event == es[IndexOf(es, Head(eventIds))]
             confirmations == CalculateConfirmations(event.blockNumber, currentBlockNumber)
             next == IF IsEventConfirmed(event.blockNumber, currentBlockNumber)
                        /\ event.status = "pending"
                     THEN UpdateEventStatus(es, cs, event.id, "confirmed", confirmations)
                     ELSE UpdateEventStatus(es, cs, event.id, event.status, confirmations)
         IN ConfirmEach(next[1], next[2], Tail(eventIds), currentBlockNumber)

UpdateEventConfirmations(es, cs, currentBlockNumber) ==
    ConfirmEach(es, cs, IdsWithStatus(es, 1, "pending"), currentBlockNumber)

\* processBlock after the reorg check: saveBlock, the events indexed as
\* pending, updateEventConfirmations, reconcileOrphanedEvents and
\* updateChainState, from the ledger, events, counters and history that
\* handleReorg left.
Remainder(bs, es, cs, history, block, evs, previousBlockNumber, detectedReorg) ==
    LET saved == SaveBlock(bs, block)
        indexed == IndexEvents(es, cs, block, evs)
        confirmed == UpdateEventConfirmations(indexed[1], indexed[2], block.number)
        reconciled == ReconcileOrphanedEvents(confirmed[1], confirmed[2], block.number)
    IN /\ blocks' = saved
       /\ events' = reconciled[1]
       /\ chainState' = [reconciled[2] EXCEPT !.lastProcessedBlock = block.number,
                                               !.lastCanonicalHash = block.hash,
                                               !.confirmedDepth = CONFIRMATION_DEPTH]
       /\ reorgHistory' = history
       /\ lastCall' = [op |-> "processBlock", block |-> block,
                       previousBlockNumber |-> previousBlockNumber,
                       reorg |-> detectedReorg]

\* processBlock(block, evs)
ProcessBlock(block, evs) ==
    LET previousBlockNumber == chainState.lastProcessedBlock
        detectedReorg == DetectReorg(blocks, events, block, previousBlockNumber)
        handled == IF detectedReorg # NoReorg
                   THEN HandleReorg(blocks, events, chainState, reorgHistory, detectedReorg)
                   ELSE <<blocks, events, chainState, reorgHistory>>
    IN Remainder(handled[1], handled[2], handled[3], handled[4], block, evs,
                 previousBlockNumber, detectedReorg)

\* ---------------------------------------------------------------- the node

\* The node's chain: lineage[h] is the fork of its block at height h.  The
\* other fields are history: the number of reorganisations, the height forkAt
\* from which the last one replaced the chain and the height oldTip the
\* chain had then, the hashes of the blocks that carried an event, and the
\* number of blocks delivered a second time.
Tip == Len(node.lineage)

WithEvent(block, evs) ==
    IF evs = <<>> THEN node.withEvent ELSE node.withEvent \cup {block.hash}

ParentHash(lineage, n) == IF n = 1 THEN Hash(0, 0) ELSE Hash(n - 1, lineage[n - 1])

NodeBlock(lineage, n) ==
    [number |-> n, hash |-> Hash(n, lineage[n]), parentHash |-> ParentHash(lineage, n)]

\* The events of the block at height n: none, or one event (the same
\* transaction on every fork).
EventChoices(n) ==
    IF n = EventBlock
    THEN {<<>>, <<[transactionHash |-> n, logIndex |-> 0]>>}
    ELSE {<<>>}

\* The node extends its chain by one block, which is processed.
Extend ==
    /\ Tip < MaxBlock
    /\ LET fork == IF Tip = 0 THEN 0 ELSE node.lineage[Tip]
           lineage == Append(node.lineage, fork)
       IN \E evs \in EventChoices(Tip + 1) :
             /\ node' = [node EXCEPT !.lineage = lineage,
                                     !.withEvent = WithEvent(NodeBlock(lineage, Tip + 1), evs)]
             /\ ProcessBlock(NodeBlock(lineage, Tip + 1), evs)
             /\ UNCHANGED <<idxVars, handling, txVars, heads, stakeVars, disputeVars>>

\* The node replaces its blocks from height k on by a competing fork, whose
\* first block (built on the block at height k - 1) is processed.
Reorganise(k) ==
    /\ node.reorgs < MaxReorgs
    /\ Tip <= MaxReorgTip
    /\ k \in 1..Tip
    /\ LET lineage == Append(SubSeq(node.lineage, 1, k - 1), node.reorgs + 1)
       IN \E evs \in EventChoices(k) :
             /\ node' = [lineage |-> lineage, reorgs |-> node.reorgs + 1,
                         forkAt |-> k, oldTip |-> Tip,
                         withEvent |-> WithEvent(NodeBlock(lineage, k), evs),
                         redelivered |-> node.redelivered]
             /\ ProcessBlock(NodeBlock(lineage, k), evs)
             /\ UNCHANGED <<idxVars, handling, txVars, heads, stakeVars, disputeVars>>

\* The events a block of the node's chain was delivered with.
EventsOf(block) ==
    IF block.hash \in node.withEvent
    THEN <<[transactionHash |-> block.number, logIndex |-> 0]>>
    ELSE <<>>

\* The block of the node's chain at height n, which was processed before, is
\* processed again with the same events: the same block twice when n is the
\* head, a lower-numbered block after a higher one otherwise.
Redeliver(n) ==
    /\ node.redelivered < MaxRedeliveries
    /\ n \in 1..Tip
    /\ node' = [node EXCEPT !.redelivered = @ + 1]
    /\ ProcessBlock(NodeBlock(node.lineage, n), EventsOf(NodeBlock(node.lineage, n)))
    /\ UNCHANGED <<idxVars, handling, txVars, heads, stakeVars, disputeVars>>

NextBlk ==
    \/ Extend
    \/ \E k \in 1..MaxReorgTip : Reorganise(k)

\* The node's chain, with blocks delivered again.
NextDeliver ==
    \/ Extend
    \/ \E k \in 1..MaxReorgTip : Reorganise(k)
    \/ \E n \in 1..MaxBlock : Redeliver(n)

SpecBlk == Init /\ [][NextBlk]_vars
SpecDeliver == Init /\ [][NextDeliver]_vars

\* ---------------------------------------------------------------- claims, Part II

\* The event the pipeline stores for the event of the block at EventBlock on
\* a fork (its id is blockHash:transactionHash:logIndex), or NoEvent.
StoredEvent(fork) ==
    LET id == <<Hash(EventBlock, fork), EventBlock, 0>>
    IN IF IndexOf(events, id) = 0 THEN NoEvent ELSE events[IndexOf(events, id)]

\* The chain was replaced once, from a height at or below EventBlock, when
\* its block at EventBlock carried an event.
ReplacedEventBlock ==
    /\ node.reorgs = 1
    /\ node.forkAt <= EventBlock
    /\ EventBlock <= node.oldTip
    /\ Hash(EventBlock, 0) \in node.withEvent

\* C4: reorg round trip.  After blocks 1..p were processed with an event in
\* block e and the competing blocks k'..p' (k <= e <= p) were processed, the
\* event recorded for the old block e is orphaned and still stored; it is
\* stored ever after; and an equivalent event in block e' of the new chain is
\* confirmed once the chain is CONFIRMATION_DEPTH blocks above it, not before.
C4_ReorgRoundTrip ==
    /\ (ReplacedEventBlock /\ Tip = node.oldTip) =>
          /\ StoredEvent(0) # NoEvent
          /\ StoredEvent(0).status = "orphaned"
    /\ Hash(EventBlock, 0) \in node.withEvent => StoredEvent(0) # NoEvent
    /\ (ReplacedEventBlock /\ Hash(EventBlock, 1) \in node.withEvent) =>
          /\ StoredEvent(1) # NoEvent
          /\ StoredEvent(1).status = "confirmed" <=> Tip >= EventBlock + CONFIRMATION_DEPTH

\* Blocks 1..MaxReorgTip with an event in block EventBlock, then the
\* competing blocks from EventBlock to MaxReorgTip with an equivalent event:
\* the old event is orphaned, the new one stored.
C4_Witness ==
    /\ ReplacedEventBlock
    /\ node.forkAt = EventBlock
    /\ node.oldTip = MaxReorgTip
    /\ Tip = MaxReorgTip
    /\ StoredEvent(0) # NoEvent
    /\ StoredEvent(0).status = "orphaned"
    /\ StoredEvent(1) # NoEvent

\* The fork point of a block: the highest height below it at which the
\* canonical header of the ledger is the block of the chain the new block
\* belongs to (0 if there is none).
ForkPoint(bs, lineage, number) ==
    LET agree == {h \in 1..(number - 1) :
                     /\ GetCanonicalBlock(bs, h) # NoBlock
                     /\ GetCanonicalBlock(bs, h).blockHash = Hash(h, lineage[h])}
    IN IF agree = {} THEN 0 ELSE CHOOSE h \in agree : \A g \in agree : g <= h

\* The ids of the stored events of the blocks startBlock..endBlock.
EventsIn(es, startBlock, endBlock) ==
    {es[i].id : i \in {j \in 1..Len(es) :
                          startBlock <= es[j].blockNumber /\ es[j].blockNumber <= endBlock}}

\* C6: fork-point resolution.  When detectReorg reports a divergence (the
\* first of the run) for a block whose chain last agrees with the ledger at
\* height f >= 1, with p the previously processed head, the ReorgEvent has
\* affectedBlockStart = f + 1, affectedBlockEnd = p, and orphanedEvents is
\* the set of the stored events with blockNumber in [f + 1, p].
C6_ForkPointResolution ==
    [][(/\ lastCall'.op = "processBlock"
        /\ lastCall'.reorg # NoReorg
        /\ reorgHistory = <<>>
        /\ ForkPoint(blocks, node'.lineage, lastCall'.block.number) >= 1) =>
          LET f == ForkPoint(blocks, node'.lineage, lastCall'.block.number)
              p == lastCall'.previousBlockNumber
              reorg == lastCall'.reorg
          IN /\ reorg.affectedBlockStart = f + 1
             /\ reorg.affectedBlockEnd = p
             /\ {reorg.orphanedEvents[i] : i \in 1..Len(reorg.orphanedEvents)}
                   = EventsIn(events, f + 1, p)]_vars

\* findDivergencePoint: whether the backward walk ends at a height where the
\* canonical header's hash is the one looked for.
RECURSIVE WalkAgrees(_, _, _, _)
WalkAgrees(bs, parentHash, checkBlockNumber, divergenceDepth) ==
    IF checkBlockNumber > 0 /\ divergenceDepth <= MaxWalkBack
    THEN LET canonicalBlock == GetCanonicalBlock(bs, checkBlockNumber)
         IN IF canonicalBlock = NoBlock THEN FALSE
            ELSE IF canonicalBlock.blockHash = parentHash THEN TRUE
            ELSE WalkAgrees(bs, parentHash, checkBlockNumber - 1, divergenceDepth + 1)
    ELSE FALSE

\* C7: unresolvable divergence.  When detectReorg finds a divergence for a
\* block above height 1 and the backward walk ends (at its bound, at a
\* missing canonical header, or below the oldest header) without a height
\* where the hashes agree, no ReorgEvent with a depth and a range is
\* returned, and none is handled and recorded.
C7_UnresolvableDivergence ==
    [][(/\ lastCall'.op = "processBlock"
        /\ lastCall'.block.number > 1
        /\ lastCall'.previousBlockNumber # 0
        /\ GetCanonicalBlock(blocks, lastCall'.previousBlockNumber) # NoBlock
        /\ GetCanonicalBlock(blocks, lastCall'.previousBlockNumber).blockHash
              # lastCall'.block.parentHash
        /\ ~WalkAgrees(blocks, lastCall'.block.parentHash,
                       lastCall'.block.number - 1, 1)) =>
          /\ lastCall'.reorg = NoReorg
          /\ reorgHistory' = reorgHistory]_vars

\* C14: single canonical header.  After any sequence of processBlock calls
\* the ledger holds at most one header with isCanonical = true per block
\* number.
C14_SingleCanonicalHeader ==
    \A i, j \in 1..Len(blocks) :
        (/\ blocks[i].blockNumber = blocks[j].blockNumber
         /\ blocks[i].isCanonical
         /\ blocks[j].isCanonical) => i = j

\* The stored events with a status (what getPendingEvents and
\* getOrphanedEvents return).
WithStatus(status) == {i \in 1..Len(events) : events[i].status = status}

\* C15: pending-counter consistency.  After any sequence of processBlock
\* calls, also with a block processed twice and with competing blocks,
\* chainState.pendingEventCount is the number of stored events whose status
\* is pending.
C15_PendingCounter ==
    chainState.pendingEventCount = Cardinality(WithStatus("pending"))

\* C16: orphaned-counter consistency.  After any sequence of processBlock
\* calls (with their handleReorg and reconcileOrphanedEvents),
\* chainState.orphanedEventCount is the number of stored events whose status
\* is orphaned.
C16_OrphanedCounter ==
    chainState.orphanedEventCount = Cardinality(WithStatus("orphaned"))

\* The highest block number processed so far: every processed block is
\* saved in the ledger and none is removed.
HighestProcessed ==
    LET numbers == {blocks[i].blockNumber : i \in 1..Len(blocks)}
    IN CHOOSE n \in numbers : \A m \in numbers : m <= n

\* C19: chain-state head is the maximum.  After any sequence of
\* processBlock calls chainState.lastProcessedBlock is the highest block
\* number processed so far; a lower-numbered block processed after a higher
\* one does not decrease it.
C19_HeadIsMaximum ==
    blocks # <<>> => chainState.lastProcessedBlock = HighestProcessed

\* C20: confirmation as the chain grows.  On a linear chain, after
\* processBlock of a block at height h every event that was pending with
\* h - blockNumber >= CONFIRMATION_DEPTH is confirmed; and no processBlock
\* at height h turns an event with h - blockNumber < CONFIRMATION_DEPTH
\* into a confirmed one.
C20_ConfirmedAsChainGrows ==
    [][lastCall'.op = "processBlock" =>
          LET h == lastCall'.block.number
          IN /\ node'.reorgs = 0 =>
                   \A i \in 1..Len(events) :
                      (/\ events[i].status = "pending"
                       /\ h - events[i].blockNumber >= CONFIRMATION_DEPTH)
                         => events'[i].status = "confirmed"
             /\ \A i \in 1..Len(events') :
                   (/\ events'[i].status = "confirmed"
                    /\ i <= Len(events) => events[i].status # "confirmed")
                      => h - events'[i].blockNumber >= CONFIRMATION_DEPTH]_vars

\* A linear chain has grown CONFIRMATION_DEPTH blocks above the block of an
\* event, and the event is confirmed.
C20_Witness ==
    /\ node.reorgs = 0
    /\ Tip = EventBlock + CONFIRMATION_DEPTH
    /\ lastCall.op = "processBlock"
    /\ lastCall.block.number = Tip
    /\ StoredEvent(0) # NoEvent
    /\ StoredEvent(0).status = "confirmed"
    /\ StoredEvent(0).confirmations = CONFIRMATION_DEPTH

(***************************************************************************)
(* Part III: BlockchainIndexerService                                      *)
(***************************************************************************)

\* The events the callers submit: two transfers and an event of another type.
TxEvents ==
    { [txHash |-> "ta", logIndex |-> 0, blockNumber |-> 2, eventType |-> "Transfer",
       data |-> [from |-> "X", to |-> "Y", amount |-> 1]],
      [txHash |-> "tb", logIndex |-> 0, blockNumber |-> 1, eventType |-> "Transfer",
       data |-> [from |-> "Y", to |-> "X", amount |-> 2]],
      [txHash |-> "tc", logIndex |-> 0, blockNumber |-> 3, eventType |-> "Approval",
       data |-> [from |-> "X", to |-> "Y", amount |-> 0]] }

\* The rows of processed_events with the key of an event.
ProcessedRows(rows, event) ==
    {r \in rows : /\ r.txHash = event.txHash
                   /\ r.logIndex = event.logIndex
                   /\ r.blockNumber = event.blockNumber}

\* A table without the unique constraint.
KeyTakenNever(rows, event) == FALSE

\* @Unique(['txHash', 'logIndex', 'blockNumber']) of processed_events.
KeyTaken(rows, event) == ProcessedRows(rows, event) # {}

\* The row processEvent creates; the primary key is generated.
ProcessedEventRow(rows, event) ==
    [id |-> Cardinality(rows) + 1,
     txHash |-> event.txHash,
     logIndex |-> event.logIndex,
     blockNumber |-> event.blockNumber,
     eventType |-> event.eventType]

\* manager.decrement and manager.increment: an UPDATE of the rows that match
\* (address, tokenAddress); no row is created.
Adjusted(balances, address, delta) ==
    IF address \in DOMAIN balances
    THEN [balances EXCEPT ![address] = @ + delta]
    ELSE balances

\* updateBalances
UpdateBalances(balances, data) ==
    Adjusted(Adjusted(balances, data.from, 0 - data.amount), data.to, data.amount)

\* getLastBlock: the checkpoint's lastBlock, or null (0 after "|| 0").
GetLastBlock(checkpoint) == IF checkpoint = <<>> THEN 0 ELSE checkpoint[1]

Max(a, b) == IF a >= b THEN a ELSE b

\* The positions of a call at which its transaction holds the inserted row.
AfterInsert == {"balances", "readCheckpoint", "updateCheckpoint", "commit"}

\* processEvent(event): the findOne before the transaction; a recorded
\* event returns at once.
Find(c, event) ==
    /\ calls[c].pc = "idle"
    /\ LET found == ProcessedRows(processedEvents, event) # {}
       IN /\ calls' = [calls EXCEPT ![c] =
                          IF found THEN IdleCall
                          ELSE [IdleCall EXCEPT !.pc = "insert", !.event = event]]
          /\ lastTx' = [op |-> "Find", c |-> c, found |-> found]
    /\ UNCHANGED <<processedEvents, tokenBalances, indexerCheckpoint,
                   idxVars, blkVars, handling, replays, heads, stakeVars, disputeVars>>

\* The insert inside the transaction.  It waits while another open
\* transaction holds an uncommitted row with the same key, and fails on a
\* committed one: the transaction is rolled back and the error is thrown.
Insert(c) ==
    /\ calls[c].pc = "insert"
    /\ \A d \in Callers \ {c} :
          ~(calls[d].pc \in AfterInsert /\ calls[d].event = calls[c].event)
    /\ calls' = [calls EXCEPT ![c] =
                    IF KeyTaken(processedEvents, calls[c].event) THEN IdleCall
                    ELSE [@ EXCEPT !.pc = IF calls[c].event.eventType = "Transfer"
                                          THEN "balances" ELSE "readCheckpoint"]]
    /\ lastTx' = [op |-> "Insert", c |-> c,
                  found |-> KeyTaken(processedEvents, calls[c].event)]
    /\ UNCHANGED <<processedEvents, tokenBalances, indexerCheckpoint,
                   idxVars, blkVars, handling, replays, heads, stakeVars, disputeVars>>

\* updateBalances inside the transaction: the two UPDATEs take effect for
\* the other transactions at the commit.
Balances(c) ==
    /\ calls[c].pc = "balances"
    /\ calls' = [calls EXCEPT ![c].pc = "readCheckpoint"]
    /\ lastTx' = [op |-> "Balances", c |-> c, found |-> FALSE]
    /\ UNCHANGED <<processedEvents, tokenBalances, indexerCheckpoint,
                   idxVars, blkVars, handling, replays, heads, stakeVars, disputeVars>>

\* getLastBlock and Math.max: the value the checkpoint update will store.
ReadCheckpoint(c) ==
    /\ calls[c].pc = "readCheckpoint"
    /\ calls' = [calls EXCEPT ![c].pc = "updateCheckpoint",
                              ![c].lastBlock = Max(GetLastBlock(indexerCheckpoint),
                                                   calls[c].event.blockNumber)]
    /\ lastTx' = [op |-> "ReadCheckpoint", c |-> c, found |-> FALSE]
    /\ UNCHANGED <<processedEvents, tokenBalances, indexerCheckpoint,
                   idxVars, blkVars, handling, replays, heads, stakeVars, disputeVars>>

\* The UPDATE of the checkpoint row: it waits while another open
\* transaction has updated the row.
UpdateCheckpoint(c) ==
    /\ calls[c].pc = "updateCheckpoint"
    /\ indexerCheckpoint # <<>> => \A d \in Callers \ {c} : calls[d].pc # "commit"
    /\ calls' = [calls EXCEPT ![c].pc = "commit"]
    /\ lastTx' = [op |-> "UpdateCheckpoint", c |-> c, found |-> FALSE]
    /\ UNCHANGED <<processedEvents, tokenBalances, indexerCheckpoint,
                   idxVars, blkVars, handling, replays, heads, stakeVars, disputeVars>>

\* commitTransaction: the row, the balance changes and the checkpoint
\* become visible together.
Commit(c) ==
    /\ calls[c].pc = "commit"
    /\ processedEvents' =
          processedEvents \cup {ProcessedEventRow(processedEvents, calls[c].event)}
    /\ tokenBalances' = IF calls[c].event.eventType = "Transfer"
                        THEN UpdateBalances(tokenBalances, calls[c].event.data)
                        ELSE tokenBalances
    /\ indexerCheckpoint' = IF indexerCheckpoint = <<>> THEN <<>>
                            ELSE <<calls[c].lastBlock>>
    /\ calls' = [calls EXCEPT ![c] = IdleCall]
    /\ lastTx' = [op |-> "Commit", c |-> c, found |-> FALSE]
    /\ UNCHANGED <<idxVars, blkVars, handling, replays, heads, stakeVars, disputeVars>>

\* A statement of the transaction throws (the store fails, or the
\* transaction is chosen as a deadlock victim): rollbackTransaction.
Rollback(c) ==
    /\ calls[c].pc \in AfterInsert
    /\ calls' = [calls EXCEPT ![c] = IdleCall]
    /\ lastTx' = [op |-> "Rollback", c |-> c, found |-> FALSE]
    /\ UNCHANGED <<processedEvents, tokenBalances, indexerCheckpoint,
                   idxVars, blkVars, handling, replays, heads, stakeVars, disputeVars>>

CallStep(c) ==
    \/ \E event \in TxEvents : Find(c, event)
    \/ Insert(c)
    \/ Balances(c)
    \/ ReadCheckpoint(c)
    \/ UpdateCheckpoint(c)
    \/ Commit(c)
    \/ Rollback(c)

NextTx == \E c \in Callers : CallStep(c)

\* The tables hold the token_balances rows of any set of addresses, and the
\* checkpoint row or not: no code of the service creates either.
InitSeeded ==
    /\ InitIdx(<<"E1", "E2">>)
    /\ InitBlkIdle
    /\ \E seeded \in SUBSET Addresses, hasCheckpoint \in BOOLEAN :
          InitTx(seeded, hasCheckpoint)

SpecTx == InitSeeded /\ [][NextTx]_vars

\* ---------------------------------------------------------------- claims, Part III

\* The transfers that have a row in processed_events.
RecordedTransfers ==
    {e \in TxEvents : e.eventType = "Transfer" /\ ProcessedRows(processedEvents, e) # {}}

RECURSIVE NetOf(_, _)
\* The sum of the balance deltas of a set of transfers for an address.
NetOf(address, transfers) ==
    IF transfers = {} THEN 0
    ELSE LET e == CHOOSE x \in transfers : TRUE
         IN (IF e.data.to = address THEN e.data.amount ELSE 0)
            - (IF e.data.from = address THEN e.data.amount ELSE 0)
            + NetOf(address, transfers \ {e})

\* Every recorded transfer is reflected once in the balance of an address
\* that has a row.
SeededExactlyOnce ==
    \A a \in DOMAIN tokenBalances :
        tokenBalances[a] = InitialBalance + NetOf(a, RecordedTransfers)

\* C21: exactly-once processing.  In every interleaving of concurrent
\* processEvent calls each (txHash, logIndex, blockNumber) has at most one
\* row in processed_events; the balance delta of every recorded Transfer is
\* applied exactly once, to the sender's and to the receiver's balance; and
\* a call for a recorded event changes no row, no balance and no checkpoint.
C21_ExactlyOnce ==
    /\ [](/\ \A e \in TxEvents : Cardinality(ProcessedRows(processedEvents, e)) <= 1
          /\ SeededExactlyOnce
          /\ \A e \in RecordedTransfers :
                /\ e.data.from \in DOMAIN tokenBalances
                /\ e.data.to \in DOMAIN tokenBalances)
    /\ [][(lastTx'.op = "Find" /\ lastTx'.found) =>
             /\ processedEvents' = processedEvents
             /\ tokenBalances' = tokenBalances
             /\ indexerCheckpoint' = indexerCheckpoint]_vars

\* ---------------------------------------------------------------- Part I, store failures

\* indexEventType: stateRepository.save(state) throws after the events of
\* the window (the store is unavailable).  The state object already holds
\* lastProcessedBlockNumber = endBlock and status idle; control passes to
\* the catch.
SaveStateFails(p) ==
    LET l == loops[p]
    IN /\ l.pc = "saveState"
       /\ loops' = [loops EXCEPT ![p] = [l EXCEPT !.st = AdvancedState(l.st, l.to),
                                                  !.pc = "saveError"]]
       /\ lastOp' = [op |-> "SaveStateFails", p |-> p]
       /\ UNCHANGED <<config, isIndexing, stateRows, eventRows, blkVars, handling, txVars, heads, stakeVars, disputeVars>>

\* indexEventType's catch: its stateRepository.save(state) throws too.  The
\* error leaves indexEventType, indexContract's catch logs it and ends the
\* loop over the contract's events; the poll goes on to reconcileReorgs.
SaveErrorFails(p) ==
    LET l == loops[p]
    IN /\ l.pc = "saveError"
       /\ loops' = [loops EXCEPT ![p] = [Polling(l.head) EXCEPT !.pc = "reconcile"]]
       /\ lastOp' = [op |-> "SaveErrorFails", p |-> p]
       /\ UNCHANGED <<config, isIndexing, stateRows, eventRows, blkVars, handling, txVars, heads, stakeVars, disputeVars>>

\* One poll chain whose store may refuse a save of the state row.
NextFail ==
    \/ LoopStep(1)
    \/ Stop
    \/ SaveStateFails(1)
    \/ SaveErrorFails(1)

SpecFail == Init /\ [][NextFail]_vars

\* ---------------------------------------------------------------- claims, Part I (continued)

\* C22: insert-time confirmations.  When processEvent inserts a new event
\* during a cycle that observed chain head h, the stored confirmations equal
\* h - log.blockNumber and the stored isFinalized equals
\* (h - log.blockNumber >= confirmationsRequired).
C22_InsertTimeConfirmations ==
    [][\A p \in DOMAIN loops :
          (lastOp'.op = "ProcSave" /\ lastOp'.p = p /\ lastOp'.inserted) =>
             \A r \in eventRows' \ eventRows :
                /\ r.confirmations = loops[p].head - r.blockNumber
                /\ r.isFinalized = (loops[p].head - r.blockNumber >= ConfirmationsRequired)]_vars

\* C23: batch-level failure.  When a cycle of indexEventType fails at batch
\* level (the log fetch throws, or the store refuses the save of the
\* checkpoint) and its catch has saved the state, the stored
\* lastProcessedBlockNumber is unchanged, the status is error with a
\* message, and the next cycle computes the same `from` block.
C23_BatchLevelFailure ==
    [][\A p \in DOMAIN loops :
          (lastOp'.op = "SaveError" /\ lastOp'.p = p) =>
             LET k == SubKey(loops[p].sub)
             IN /\ stateRows'[k].lastProcessedBlockNumber
                      = stateRows[k].lastProcessedBlockNumber
                /\ stateRows'[k].status = "error"
                /\ stateRows'[k].errorMessage # "null"
                /\ WindowStart(stateRows'[k]) = loops[p].from]_vars

\* C24: success clears the error.  After a cycle of indexEventType that
\* completes successfully, the stored checkpoint has
\* lastProcessedBlockNumber = to, status idle and no error message, also
\* when the previous cycle had left status error with a message.
C24_SuccessClearsError ==
    [][\A p \in DOMAIN loops :
          (lastOp'.op = "SaveState" /\ lastOp'.p = p) =>
             LET k == SubKey(loops[p].sub)
             IN /\ stateRows'[k].lastProcessedBlockNumber = loops[p].to
                /\ stateRows'[k].status = "idle"
                /\ stateRows'[k].errorMessage = "null"]_vars

\* The stored rows of a log that carry a recorded failure.
FailureRecorded(rows, log) ==
    {r \in rows : /\ r.transactionHash = log.transactionHash
                   /\ r.logIndex = log.logIndex
                   /\ (r.processingError # "null" \/ r.retryAttempts > 0)}

\* C25: per-event failures do not block the batch.  When decoding or
\* persisting one log of a window fails, processing goes on with the next
\* log of the window (or the checkpoint update), the checkpoint advances to
\* `to` with status idle, and the failure is recorded on that event's
\* processingError / retryAttempts.
C25_PerEventFailures ==
    [][\A p \in DOMAIN loops :
          LET l == loops[p]
              failedDecode == /\ lastOp'.op = "ProcFind" /\ lastOp'.p = p
                              /\ ~lastOp'.found /\ loops'[p].pc # "save"
              failedSave == /\ lastOp'.op = "ProcSave" /\ lastOp'.p = p
                            /\ ~lastOp'.inserted
          IN /\ (failedDecode \/ failedSave) =>
                   /\ loops'[p] = NextEvent(l)
                   /\ FailureRecorded(eventRows', Head(l.queue)) # {}
             /\ (lastOp'.op = "SaveState" /\ lastOp'.p = p) =>
                   /\ stateRows'[SubKey(l.sub)].lastProcessedBlockNumber = l.to
                   /\ stateRows'[SubKey(l.sub)].status = "idle"]_vars

\* C26: confirmation sweep.  After reconcileReorgs(h), no stored event with
\* h - blockNumber < confirmationsRequired is finalized; every event it
\* unfinalizes has isProcessed = false, processingError = null and
\* retryAttempts = 0; every event with h - blockNumber >=
\* confirmationsRequired, and every event that was not finalized, is
\* unchanged.
C26_ConfirmationSweep ==
    [][lastOp'.op = "Reconcile" =>
          LET h == lastOp'.head
          IN /\ \A e \in eventRows' :
                   h - e.blockNumber < ConfirmationsRequired => ~e.isFinalized
             /\ \A e \in eventRows :
                   IF e.isFinalized /\ h - e.blockNumber < ConfirmationsRequired
                   THEN \E f \in eventRows' :
                           /\ Identity(f) = Identity(e)
                           /\ f.confirmations = e.confirmations
                           /\ ~f.isFinalized /\ ~f.isProcessed
                           /\ f.processingError = "null" /\ f.retryAttempts = 0
                   ELSE e \in eventRows'
             /\ Cardinality(eventRows') = Cardinality(eventRows)]_vars

\* One sweep has found a finalized event below the threshold and reset it,
\* and has left another stored event, which was not finalized, as it was.
C26_Witness ==
    /\ lastOp.op = "Reconcile"
    /\ \E r, q \in eventRows :
          /\ r.confirmations >= ConfirmationsRequired /\ ~r.isFinalized
          /\ lastOp.head - r.blockNumber < ConfirmationsRequired
          /\ q.confirmations < ConfirmationsRequired /\ ~q.isFinalized

\* ---------------------------------------------------------------- claims, Part II (continued)

\* The status changes the event state machine allows.
AllowedTransitions ==
    {<<"pending", "confirmed">>, <<"confirmed", "orphaned">>, <<"orphaned", "confirmed">>}

\* The status changes a step makes: <<old, new>> for every stored event
\* whose status differs after the step.
Transitions(es, after) ==
    {<<es[i].status, after[IndexOf(after, es[i].id)].status>> :
        i \in {j \in 1..Len(es) :
                  /\ IndexOf(after, es[j].id) # 0
                  /\ after[IndexOf(after, es[j].id)].status # es[j].status}}

\* C27: event state machine.  Under any sequence of processBlock calls an
\* event's status changes only by pending -> confirmed, confirmed ->
\* orphaned or orphaned -> confirmed.
C27_EventStateMachine ==
    [][Transitions(events, events') \subseteq AllowedTransitions]_vars

\* The ledger's record of the block an event was recorded in.
BlockOf(bs, event) ==
    LET hits == {i \in 1..Len(bs) : /\ bs[i].blockNumber = event.blockNumber
                                     /\ bs[i].blockHash = event.blockHash}
    IN IF hits = {} THEN NoBlock ELSE bs[CHOOSE i \in hits : TRUE]

\* C28: reconciliation requires matching lineage.  An orphaned event is
\* promoted to confirmed only if the block it was recorded in is canonical
\* again and the head is CONFIRMATION_DEPTH above it; an orphaned event
\* whose block is still marked non-canonical is never promoted.
C28_MatchingLineage ==
    [][\A i \in 1..Len(events) :
          LET e == events[i]
              after == events'[IndexOf(events', e.id)]
          IN (e.status = "orphaned" /\ IndexOf(events', e.id) # 0
                 /\ after.status = "confirmed") =>
                /\ BlockOf(blocks', e) # NoBlock
                /\ BlockOf(blocks', e).isCanonical
                /\ IsEventConfirmed(e.blockNumber, lastCall'.block.number)]_vars

\* The divergence decision on the header at block.number - 1.
Diverges(bs, block) ==
    /\ GetCanonicalBlock(bs, block.number - 1) # NoBlock
    /\ GetCanonicalBlock(bs, block.number - 1).blockHash # block.parentHash

\* C29: divergence decision.  processBlock(b) triggers reorg handling if
\* and only if a canonical header is recorded at height b.number - 1 and its
\* hash differs from b.parentHash; otherwise (b re-submits a processed block
\* or competes at a processed height) no divergence is reported and no
\* event or block is rolled back.
C29_DivergenceDecision ==
    [][lastCall'.op = "processBlock" /\ lastCall' # lastCall =>
          /\ (lastCall'.reorg # NoReorg) <=> Diverges(blocks, lastCall'.block)
          /\ ~Diverges(blocks, lastCall'.block) =>
                /\ reorgHistory' = reorgHistory
                /\ \A i \in 1..Len(blocks) : blocks'[i].isCanonical = blocks[i].isCanonical
                /\ <<"confirmed", "orphaned">> \notin Transitions(events, events')]_vars

\* ---------------------------------------------------------------- handleReorg, step by step

\* handleReorg awaits rollbackAffectedEvents, markBlocksAsNonCanonical and
\* recordReorg one after the other, with no transaction around them; the
\* state between two of them is what a read that runs meanwhile is
\* answered from.  handling holds the processBlock call whose handleReorg
\* is in flight.

\* processBlock(block, evs) for the first block of a competing fork, up to
\* the call of handleReorg.
ReorgBegin(k) ==
    /\ handling = NoHandling
    /\ node.reorgs < MaxReorgs
    /\ Tip <= MaxReorgTip
    /\ k \in 1..Tip
    /\ LET lineage == Append(SubSeq(node.lineage, 1, k - 1), node.reorgs + 1)
           block == NodeBlock(lineage, k)
           previousBlockNumber == chainState.lastProcessedBlock
           detectedReorg == DetectReorg(blocks, events, block, previousBlockNumber)
       IN \E evs \in EventChoices(k) :
             /\ detectedReorg # NoReorg
             /\ node' = [lineage |-> lineage, reorgs |-> node.reorgs + 1,
                         forkAt |-> k, oldTip |-> Tip,
                         withEvent |-> WithEvent(block, evs),
                         redelivered |-> node.redelivered]
             /\ handling' = [block |-> block, evs |-> evs, reorg |-> detectedReorg,
                             previousBlockNumber |-> previousBlockNumber,
                             step |-> "rollback"]
             /\ lastCall' = [op |-> "handleReorg", block |-> block]
             /\ UNCHANGED <<idxVars, blocks, events, reorgHistory, chainState, txVars, heads, stakeVars, disputeVars>>

\* handleReorg: rollbackAffectedEvents has returned.
ReorgRollback ==
    /\ handling # NoHandling
    /\ handling.step = "rollback"
    /\ LET rolled == RollbackAffectedEvents(events, chainState, handling.reorg.orphanedEvents)
       IN /\ events' = rolled[1]
          /\ chainState' = rolled[2]
    /\ handling' = [handling EXCEPT !.step = "mark"]
    /\ UNCHANGED <<idxVars, blocks, reorgHistory, node, lastCall, txVars, heads, stakeVars, disputeVars>>

\* handleReorg: markBlocksAsNonCanonical has returned.
ReorgMark ==
    /\ handling # NoHandling
    /\ handling.step = "mark"
    /\ blocks' = MarkBlocksNonCanonical(blocks, handling.reorg.affectedBlockStart,
                                        handling.reorg.affectedBlockEnd)
    /\ handling' = [handling EXCEPT !.step = "record"]
    /\ UNCHANGED <<idxVars, events, reorgHistory, chainState, node, lastCall, txVars, heads, stakeVars, disputeVars>>

\* handleReorg: recordReorg, and the rest of processBlock.
ReorgFinish ==
    /\ handling # NoHandling
    /\ handling.step = "record"
    /\ Remainder(blocks, events, chainState, Append(reorgHistory, handling.reorg),
                 handling.block, handling.evs, handling.previousBlockNumber,
                 handling.reorg)
    /\ handling' = NoHandling
    /\ UNCHANGED <<idxVars, node, txVars, heads, stakeVars, disputeVars>>

\* The node extends its chain while no handleReorg is in flight.
ExtendIdle ==
    /\ handling = NoHandling
    /\ Extend

NextAtomic ==
    \/ ExtendIdle
    \/ \E k \in 1..MaxReorgTip : ReorgBegin(k)
    \/ ReorgRollback
    \/ ReorgMark
    \/ ReorgFinish

SpecAtomic == Init /\ [][NextAtomic]_vars

\* The orphaned events are those of blocks marked non-canonical.
OrphanedOffChain ==
    \A i \in 1..Len(events) :
        events[i].status = "orphaned" =>
            /\ BlockOf(blocks, events[i]) # NoBlock
            /\ ~BlockOf(blocks, events[i]).isCanonical

\* Every block marked non-canonical lies in the range of a recorded reorg.
NonCanonicalRecorded ==
    \A i \in 1..Len(blocks) :
        ~blocks[i].isCanonical =>
            \E j \in 1..Len(reorgHistory) :
                /\ reorgHistory[j].affectedBlockStart <= blocks[i].blockNumber
                /\ blocks[i].blockNumber <= reorgHistory[j].affectedBlockEnd

\* C30: atomic reorg handling.  The three effects of handleReorg (the
\* listed events orphaned, the affected blocks non-canonical, the reorg
\* record appended) are applied as one unit: no state that a read or a
\* concurrent processBlock can observe has events orphaned whose blocks are
\* still canonical, or blocks non-canonical without a reorg record.
C30_AtomicReorgHandling ==
    /\ OrphanedOffChain
    /\ NonCanonicalRecorded

\* ---------------------------------------------------------------- Part I, scheduling

\* The steps of a poll chain that the runtime takes by itself: a timer set
\* by setTimeout fires, an awaited promise settles.
ChainStep(p) ==
    \/ \E h \in 1..MaxHead : PollTick(p, h)
    \/ \E ok \in BOOLEAN : ReadState(p, ok)
    \/ SaveError(p)
    \/ \E outcome \in Outcomes : ProcFind(p, outcome)
    \/ ProcSave(p)
    \/ SaveState(p)
    \/ Reconcile(p)

\* The poll chain under the event loop's scheduling: a step that stays
\* possible is taken.
SpecPollFair == SpecPoll /\ WF_vars(ChainStep(1))
SpecFailFair == SpecFail /\ WF_vars(ChainStep(1))

\* The positions of a poll between getBlockNumber and the finally block.
InFlight == {"readState", "find", "save", "saveState", "saveError", "reconcile"}

\* The positions of indexEventType after fetchEvents answered.
Persisting == {"find", "save", "saveState"}

\* The stored checkpoint of the i-th configured event (-1 without a row).
StoredCheckpoint(i) ==
    IF i > Len(config.events) THEN -1
    ELSE IF stateRows[SubKey(i)] = NoRow THEN -1
    ELSE stateRows[SubKey(i)].lastProcessedBlockNumber

\* C31: graceful stop.  stop() itself changes nothing but isIndexing; after
\* stop() with no later start(), the poll in flight runs to completion
\* (a window whose logs were fetched has its checkpoint saved at `to`, and
\* the poll ends), and no further poll begins or is scheduled.
C31_GracefulStop ==
    /\ [][lastOp'.op = "Stop" =>
             /\ loops' = loops /\ stateRows' = stateRows /\ eventRows' = eventRows]_vars
    /\ [][(~isIndexing /\ ~isIndexing') =>
             \A p \in DOMAIN loops :
                /\ loops'[p].pc = "scheduled" => loops[p].pc = "scheduled"
                /\ loops[p].pc \notin InFlight => loops'[p].pc \notin InFlight]_vars
    /\ (~isIndexing /\ loops[1].pc \in InFlight) ~> (isIndexing \/ loops[1].pc = "none")
    /\ \A t \in 1..MaxHead, i \in 1..2 :
          (~isIndexing /\ loops[1].pc \in Persisting /\ loops[1].to = t /\ loops[1].sub = i)
             ~> (isIndexing \/ StoredCheckpoint(i) = t)

\* stop() was called while a window was being processed, and the window's
\* event and checkpoint have been saved since.
C31_Witness ==
    /\ ~isIndexing
    /\ lastOp.op = "SaveState"
    /\ eventRows # {}

\* The indexer stays running, the failures stop, and the polls keep
\* observing the highest head.
EventuallyHealthy ==
    /\ <>[]isIndexing
    /\ <>[](loops[1].pc # "saveError")
    /\ []<>(loops[1].pc = "readState" /\ loops[1].head = MaxHead)

\* Every configured subscription has reached the highest block a window can
\* end at.
CaughtUp ==
    \A i \in 1..Len(config.events) : StoredCheckpoint(i) >= MaxHead - ConfirmationsRequired

\* C32: retry liveness.  If the indexer stays running, the head keeps
\* growing and the RPC and storage failures eventually stop, every
\* subscription's lastProcessedBlockNumber eventually reaches every height
\* the head allows; a window whose batch failed is attempted again by the
\* next cycle (the catch leaves the checkpoint where the cycle found it);
\* and a failure ends neither the poll nor the polling loop.
C32_RetryLiveness ==
    /\ [][\A p \in DOMAIN loops :
             /\ (lastOp'.op = "SaveError" /\ lastOp'.p = p) =>
                   /\ WindowStart(stateRows'[SubKey(loops[p].sub)]) = loops[p].from
                   /\ loops'[p].pc \in InFlight
             /\ (lastOp'.op = "Reconcile" /\ lastOp'.p = p /\ isIndexing) =>
                   loops'[p].pc = "scheduled"]_vars
    /\ EventuallyHealthy => <>CaughtUp

\* ---------------------------------------------------------------- Part III, replay

\* Number of replayFromBlock calls.
MaxReplays == 1

\* replayFromBlock(startBlock): processedEventRepo.delete({ blockNumber:
\* startBlock }), a delete of the rows whose blockNumber equals startBlock.
ReplayFromBlock(startBlock) ==
    /\ replays < MaxReplays
    /\ replays' = replays + 1
    /\ processedEvents' = {r \in processedEvents : r.blockNumber # startBlock}
    /\ lastTx' = [op |-> "Replay", startBlock |-> startBlock]
    /\ UNCHANGED <<idxVars, blkVars, handling, tokenBalances, indexerCheckpoint, calls,
                   heads, stakeVars, disputeVars>>

\* One caller of processEvent, and replay requests for the blocks that
\* carry events.
NextReplay ==
    \/ CallStep(1)
    \/ \E b \in {e.blockNumber : e \in TxEvents} : ReplayFromBlock(b)

SpecReplay == InitSeeded /\ [][NextReplay]_vars

\* C33: replay range.  replayFromBlock(startBlock) removes every
\* ProcessedEvent record with blockNumber >= startBlock and leaves every
\* record with blockNumber < startBlock in place.
C33_ReplayRange ==
    [][lastTx'.op = "Replay" /\ lastTx' # lastTx =>
          processedEvents' = {r \in processedEvents : r.blockNumber < lastTx'.startBlock}]_vars

\* ---------------------------------------------------------------- Part I, observed heads

\* heads after provider.getBlockNumber() answered h to a poll: the highest
\* head observed so far, and whether some poll was answered a head lower
\* than an earlier one.
Observed(hs, h) ==
    [highest |-> IF h > hs.highest THEN h ELSE hs.highest,
     fell |-> hs.fell \/ h < hs.highest]

\* start(), recording the head its first poll observes.
StartObserved(p, h) ==
    /\ ~isIndexing
    /\ loops[p].pc = "none"
    /\ \A q \in DOMAIN loops : q < p => loops[q].pc # "none"
    /\ isIndexing' = TRUE
    /\ stateRows' = InitializedStates(stateRows, config.events)
    /\ loops' = [loops EXCEPT ![p] = Polling(h)]
    /\ lastOp' = [op |-> "Start", p |-> p]
    /\ heads' = Observed(heads, h)
    /\ UNCHANGED <<config, eventRows, blkVars, handling, txVars, stakeVars, disputeVars>>

\* poll, fired by setTimeout, recording the head it observes.
PollTickObserved(p, h) ==
    /\ loops[p].pc = "scheduled"
    /\ loops' = [loops EXCEPT ![p] = IF isIndexing THEN Polling(h) ELSE IdleLoop]
    /\ lastOp' = [op |-> "PollTick", p |-> p]
    /\ heads' = IF isIndexing THEN Observed(heads, h) ELSE heads
    /\ UNCHANGED <<config, isIndexing, stateRows, eventRows, blkVars, handling, txVars, stakeVars, disputeVars>>

\* One poll chain, no backfill request, the observed heads recorded.
NextObserved ==
    \/ \E h \in 1..MaxHead : StartObserved(1, h)
    \/ \E h \in 1..MaxHead : PollTickObserved(1, h)
    \/ \E ok \in BOOLEAN : ReadState(1, ok)
    \/ SaveError(1)
    \/ \E outcome \in Outcomes : ProcFind(1, outcome)
    \/ ProcSave(1)
    \/ SaveState(1)
    \/ Reconcile(1)
    \/ Stop

SpecObserved == Init /\ [][NextObserved]_vars

\* C34: the sweep is inert under a non-decreasing head.  As long as no poll
\* has observed a head lower than an earlier one (and no backfill occurs),
\* reconcileReorgs modifies no event: every event it finds finalized has
\* head - blockNumber >= confirmationsRequired.  An event is unfinalized by
\* the sweep only after a poll observed a lower head.
C34_SweepInert ==
    [][(lastOp'.op = "Reconcile" /\ ~heads.fell) =>
          /\ eventRows' = eventRows
          /\ \A e \in eventRows :
                e.isFinalized => lastOp'.head - e.blockNumber >= ConfirmationsRequired]_vars

\* A second or later poll under heads that never fell has swept a store
\* holding a finalized event.
C34_Witness ==
    /\ lastOp.op = "Reconcile"
    /\ ~heads.fell
    /\ lastOp.head = heads.highest
    /\ \E e \in eventRows : e.isFinalized /\ lastOp.head > e.blockNumber + e.confirmations + ConfirmationsRequired

\* C35: a backfill is not lost to an in-flight cycle.  When
\* backfillFromBlock has rewound a checkpoint after a cycle of the
\* subscription read it, the cycle's save of the state (after its window,
\* or in its catch) leaves lastProcessedBlockNumber at b - 1, unless its
\* window started at b.
C35_BackfillNotLost ==
    [][\A p \in DOMAIN loops :
          LET l == loops[p]
              row == stateRows[SubKey(l.sub)]
          IN (/\ lastOp'.op \in {"SaveState", "SaveError"} /\ lastOp'.p = p
              /\ row.status = "backfilling"
              /\ l.st # row) =>
                \/ stateRows'[SubKey(l.sub)].lastProcessedBlockNumber
                      = row.lastProcessedBlockNumber
                \/ l.from = row.lastProcessedBlockNumber + 1]_vars

\* C36: re-processing keeps confirmed events confirmed.  processBlock
\* called again with an already processed block (same number, hash,
\* parentHash and events) leaves one stored event per event id, changes the
\* status of no event that was confirmed, orphans no event and marks no
\* block non-canonical.
C36_ReprocessingKeepsConfirmed ==
    [][node'.redelivered # node.redelivered =>
          /\ \A i, j \in 1..Len(events') : events'[i].id = events'[j].id => i = j
          /\ \A i \in 1..Len(events) :
                events[i].status = "confirmed" =>
                   /\ IndexOf(events', events[i].id) # 0
                   /\ events'[IndexOf(events', events[i].id)].status = "confirmed"
          /\ \A t \in Transitions(events, events') : t[2] # "orphaned"
          /\ \A i \in 1..Len(blocks) : blocks[i].isCanonical => blocks'[i].isCanonical]_vars

\* ---------------------------------------------------------------- Part I, backfill requests

\* One poll chain and backfill requests.
NextBackfill ==
    \/ \E h \in 1..MaxHead : Start(1, h)
    \/ \E h \in 1..MaxHead : PollTick(1, h)
    \/ \E ok \in BOOLEAN : ReadState(1, ok)
    \/ SaveError(1)
    \/ ProcFind(1, "ok")
    \/ ProcSave(1)
    \/ SaveState(1)
    \/ Reconcile(1)
    \/ Backfill

SpecBackfill == Init /\ [][NextBackfill]_vars

\* C37: backfill frame.  A successful backfillFromBlock(contract, b)
\* changes one checkpoint row, a row of the contract, and only its
\* lastProcessedBlockNumber (to b - 1) and status (to backfilling); every
\* other checkpoint row, the rows of the contract's other event types
\* included, and every stored event are unchanged.
C37_BackfillFrame ==
    [][(lastOp'.op = "Backfill" /\ lastOp' # lastOp /\ lastOp'.success) =>
          /\ \E s \in Subscriptions :
                /\ s[1] = lastOp'.contract
                /\ stateRows[s] # NoRow
                /\ stateRows' = [stateRows EXCEPT ![s] =
                      [stateRows[s] EXCEPT !.lastProcessedBlockNumber = lastOp'.block - 1,
                                           !.status = "backfilling"]]
          /\ eventRows' = eventRows
          /\ UNCHANGED <<isIndexing, loops, config>>]_vars

\* A backfill has rewound one row that carried an error message, and the
\* row of the contract's other event type, ahead of it, and an event are
\* stored.
C37_Witness ==
    /\ lastOp.op = "Backfill"
    /\ lastOp.success
    /\ eventRows # {}
    /\ stateRows[lastOp.sub].errorMessage # "null"
    /\ \E s \in Subscriptions :
          /\ s # lastOp.sub
          /\ stateRows[s] # NoRow
          /\ stateRows[s].status # "backfilling"
          /\ stateRows[s].lastProcessedBlockNumber > stateRows[lastOp.sub].lastProcessedBlockNumber

(***************************************************************************)
(* Part IV: StakingSyncService                                             *)
(***************************************************************************)

\* Number of handleEvent calls.
MaxStakeCalls == 4

\* The staking events the chain holds: one per transaction hash.
StakingEvents ==
    { [txHash |-> "s1", type |-> "STAKE_DEPOSITED", walletAddress |-> "W",
       claimId |-> "c1", amount |-> 2],
      [txHash |-> "s2", type |-> "STAKE_WITHDRAWN", walletAddress |-> "W",
       claimId |-> "c1", amount |-> 1],
      [txHash |-> "s3", type |-> "STAKE_SLASHED", walletAddress |-> "W",
       claimId |-> "c1", amount |-> 1],
      [txHash |-> "s4", type |-> "STAKE_DEPOSITED", walletAddress |-> "V",
       claimId |-> "c1", amount |-> 1] }

\* stakeEventRepo.upsert(event, ['txHash']): the row of the txHash is
\* inserted, or updated from the event.
Upserted(rows, event) ==
    {r \in rows : r.txHash # event.txHash} \cup {event}

\* The stake found for (walletAddress, claimId), or the one created with
\* amount '0'.
CurrentAmount(rows, event) ==
    IF <<event.walletAddress, event.claimId>> \in DOMAIN rows
    THEN rows[<<event.walletAddress, event.claimId>>] ELSE 0

\* The delta applied: BigInt(stake.amount) + or - BigInt(event.amount).
AppliedDelta(current, event) ==
    IF event.type = "STAKE_DEPOSITED" THEN current + event.amount
    ELSE IF event.type \in {"STAKE_WITHDRAWN", "STAKE_SLASHED"} THEN current - event.amount
    ELSE current

\* stakeRepo.save(stake): the row of (walletAddress, claimId) is inserted
\* or updated.
SavedStake(rows, event, amount) ==
    LET key == <<event.walletAddress, event.claimId>>
    IN [k \in DOMAIN rows \cup {key} |-> IF k = key THEN amount ELSE rows[k]]

\* handleEvent(event)
HandleEvent(event) ==
    /\ lastStake.calls < MaxStakeCalls
    /\ stakeEvents' = Upserted(stakeEvents, event)
    /\ stakes' = SavedStake(stakes, event, AppliedDelta(CurrentAmount(stakes, event), event))
    /\ lastStake' = [op |-> "handleEvent", event |-> event,
                     calls |-> lastStake.calls + 1,
                     replayed |-> \E r \in stakeEvents : r.txHash = event.txHash]
    /\ UNCHANGED <<idxVars, blkVars, handling, txVars, heads, disputeVars>>

NextStake == \E event \in StakingEvents : HandleEvent(event)

SpecStake == Init /\ [][NextStake]_vars

\* C38: stake sync idempotence.  handleEvent called again with an event
\* already handled (same txHash) leaves one StakeEvent row for the txHash
\* and the Stake.amount of (walletAddress, claimId) as it was: a replayed
\* deposit, withdrawal or slash is not applied a second time.
C38_StakeSyncIdempotence ==
    [][(lastStake' # lastStake /\ lastStake'.replayed) =>
          /\ Cardinality({r \in stakeEvents' : r.txHash = lastStake'.event.txHash}) = 1
          /\ stakes' = stakes]_vars

(***************************************************************************)
(* Part V: DisputeService                                                  *)
(***************************************************************************)

\* Number of disputes created.
MaxDisputes == 2

\* The claims disputes are created for, and the ids a request can name
\* (one more than can exist: an unknown id).
ClaimIds == {"c1", "c2"}
DisputeIds == 1..(MaxDisputes + 1)
DisputeOutcomes == {"CONFIRMED", "OVERTURNED"}

\* createDispute: the findOne of an OPEN dispute of the claim.
ExistingDispute(rows, claimId) ==
    {i \in 1..Len(rows) : rows[i].claimId = claimId /\ rows[i].status = "OPEN"}

\* createDispute: the dispute of the claim created within the cooldown.
RecentDispute(rows, claimId) ==
    {i \in 1..Len(rows) : rows[i].claimId = claimId /\ rows[i].recent}

\* createDispute(claimId, ...)
CreateDispute(claimId) ==
    /\ Len(disputes) < MaxDisputes
    /\ IF ExistingDispute(disputes, claimId) # {} \/ RecentDispute(disputes, claimId) # {}
       THEN /\ lastDispute' = [op |-> "createDispute", claimId |-> claimId, ok |-> FALSE]
            /\ UNCHANGED disputes
       ELSE /\ disputes' = Append(disputes,
                              [claimId |-> claimId, status |-> "OPEN", outcome |-> "null",
                               reviewStarted |-> FALSE, resolved |-> FALSE,
                               rejectionReason |-> FALSE, recent |-> TRUE])
            /\ lastDispute' = [op |-> "createDispute", claimId |-> claimId, ok |-> TRUE]
    /\ UNCHANGED <<idxVars, blkVars, handling, txVars, heads, stakeVars>>

\* DISPUTE_COOLDOWN_HOURS pass: no stored dispute is recent any more.
CooldownElapses ==
    /\ \E i \in 1..Len(disputes) : disputes[i].recent
    /\ disputes' = [i \in 1..Len(disputes) |-> [disputes[i] EXCEPT !.recent = FALSE]]
    /\ lastDispute' = [op |-> "cooldown", ok |-> TRUE]
    /\ UNCHANGED <<idxVars, blkVars, handling, txVars, heads, stakeVars>>

\* A request naming a dispute: NotFoundException for an unknown id,
\* BadRequestException when the status is not accepted; otherwise the
\* changed entity is saved.
Request(op, disputeId, accepted, changed) ==
    /\ IF disputeId \in 1..Len(disputes) /\ accepted
       THEN /\ disputes' = [disputes EXCEPT ![disputeId] = changed]
            /\ lastDispute' = [op |-> op, id |-> disputeId, ok |-> TRUE]
       ELSE /\ lastDispute' = [op |-> op, id |-> disputeId, ok |-> FALSE]
            /\ UNCHANGED disputes
    /\ UNCHANGED <<idxVars, blkVars, handling, txVars, heads, stakeVars>>

\* A rejectDispute that accepts a dispute in any status.
CanRejectAny(status) == TRUE

\* The statuses startReview, resolveDispute and rejectDispute accept.
CanStartReview(status) == status = "OPEN"
CanResolve(status) == status \in {"OPEN", "REVIEWING"}
CanReject(status) == status = "OPEN"

\* The status of a dispute a request names (of none for an unknown id).
StatusOf(disputeId) ==
    IF disputeId \in 1..Len(disputes) THEN disputes[disputeId].status ELSE "none"

\* startReview(disputeId)
StartReview(disputeId) ==
    Request("startReview", disputeId, CanStartReview(StatusOf(disputeId)),
            [disputes[disputeId] EXCEPT !.status = "REVIEWING", !.reviewStarted = TRUE])

\* resolveDispute(disputeId, outcome, finalConfidence)
ResolveDispute(disputeId, outcome) ==
    Request("resolveDispute", disputeId, CanResolve(StatusOf(disputeId)),
            [disputes[disputeId] EXCEPT !.status = "RESOLVED", !.outcome = outcome,
                                        !.resolved = TRUE])

\* rejectDispute(disputeId, reason)
RejectDispute(disputeId) ==
    Request("rejectDispute", disputeId, CanReject(StatusOf(disputeId)),
            [disputes[disputeId] EXCEPT !.status = "REJECTED", !.rejectionReason = TRUE,
                                        !.resolved = TRUE])

NextDispute ==
    \/ \E claimId \in ClaimIds : CreateDispute(claimId)
    \/ CooldownElapses
    \/ \E d \in DisputeIds : StartReview(d)
    \/ \E d \in DisputeIds, outcome \in DisputeOutcomes : ResolveDispute(d, outcome)
    \/ \E d \in DisputeIds : RejectDispute(d)

SpecDispute == Init /\ [][NextDispute]_vars

\* The status changes of the dispute lifecycle, with the request that makes
\* each.
LifecycleSteps ==
    { <<"OPEN", "REVIEWING", "startReview">>,
      <<"OPEN", "RESOLVED", "resolveDispute">>,
      <<"REVIEWING", "RESOLVED", "resolveDispute">>,
      <<"OPEN", "REJECTED", "rejectDispute">> }

\* C39: dispute lifecycle.  A dispute's status changes only by OPEN ->
\* REVIEWING (startReview), OPEN -> RESOLVED or REVIEWING -> RESOLVED
\* (resolveDispute) and OPEN -> REJECTED (rejectDispute), and only the
\* dispute a request names changes; RESOLVED and REJECTED are terminal; a
\* request on a dispute in a status it does not accept fails and leaves the
\* disputes unchanged; createDispute fails while an OPEN dispute of the
\* claim exists; a new dispute is OPEN.
C39_DisputeLifecycle ==
    [][lastDispute' # lastDispute \/ disputes' # disputes =>
          /\ Len(disputes') >= Len(disputes)
          /\ \A i \in 1..Len(disputes) :
                /\ disputes'[i].claimId = disputes[i].claimId
                /\ disputes'[i].status # disputes[i].status =>
                      /\ <<disputes[i].status, disputes'[i].status, lastDispute'.op>>
                            \in LifecycleSteps
                      /\ lastDispute'.id = i
                /\ disputes[i].status \in {"RESOLVED", "REJECTED"} =>
                      /\ disputes'[i].status = disputes[i].status
                      /\ disputes'[i].outcome = disputes[i].outcome
          /\ \A i \in (Len(disputes) + 1)..Len(disputes') : disputes'[i].status = "OPEN"
          /\ ~lastDispute'.ok => disputes' = disputes
          /\ (lastDispute'.op \in {"startReview", "resolveDispute", "rejectDispute"}
              /\ \A step \in LifecycleSteps :
                    ~(step[1] = StatusOf(lastDispute'.id) /\ step[3] = lastDispute'.op)) =>
                ~lastDispute'.ok
          /\ (lastDispute'.op = "createDispute"
              /\ \E i \in 1..Len(disputes) :
                    /\ disputes[i].claimId = lastDispute'.claimId
                    /\ disputes[i].status = "OPEN") =>
                ~lastDispute'.ok]_vars

\* A dispute went through review to RESOLVED, another was REJECTED, and a
\* rejectDispute on the resolved one has just failed.
C39_Witness ==
    /\ lastDispute.op = "rejectDispute"
    /\ ~lastDispute.ok
    /\ StatusOf(lastDispute.id) = "RESOLVED"
    /\ disputes[lastDispute.id].reviewStarted
    /\ \E i \in 1..Len(disputes) : disputes[i].status = "REJECTED"

====
